---- MODULE Spec2Model ----
(***************************************************************************)
(* PrimeTrade task-management API (Express + Mongoose).                    *)
(*                                                                         *)
(* The state is the two collections of the document store (users, tasks),  *)
(* the wall clock that signed tokens expire against, the requests that are *)
(* suspended at an await between two store calls, and the last response    *)
(* the server wrote.  One action per route handler; a handler that makes   *)
(* two store calls is two steps, so that other requests interleave at the  *)
(* await exactly where Node lets them.                                     *)
(*                                                                         *)
(* Two more variables hold the browser side: the auth provider (session)   *)
(* and the dashboard page (view).  Their actions call the API through the  *)
(* same operators the route handlers are built from; in the specifications *)
(* that drive the API directly they stay at NoBrowser.                     *)
(*                                                                         *)
(* Optional values (JSON keys that may be missing) are sequences of length *)
(* at most one: <<>> is "key absent / undefined", <<v>> is "key present".  *)
(***************************************************************************)
EXTENDS Integers, Sequences, FiniteSets, TLC

VARIABLES
    users,       \* User collection: set of documents
    nextUserId,  \* next _id the store assigns to a user
    regTime,     \* regTime[i]: clock value when user i was created
    tasks,       \* Task collection: sequence of documents in insertion order
    nextTaskId,  \* next _id the store assigns to a task
    now,         \* wall clock, in units of the token lifetime
    inflight,    \* inflight[p]: request p suspended between two store calls
    last,        \* the last request served and the response written
    session,     \* the browser's auth provider: its React state, localStorage
                 \* and the calls it is waiting for
    view         \* the browser's dashboard page: filters, debounce timer,
                 \* list requests on their way and what the table shows

vars == <<users, nextUserId, regTime, tasks, nextTaskId, now, inflight, last,
          session, view>>

-----------------------------------------------------------------------------
(* Bounds *)

MaxUsers == 2
MaxTaskIds == 2
MaxTime == 1
NumProcs == 2
MaxRequests == 3   \* list requests one dashboard page issues
PageLimit == 1     \* tasks per page the dashboard asks for (the page uses a
                   \* larger one; a small one lets a few tasks fill two pages)

Procs == 1..NumProcs

JWT_EXPIRES_IN == 1

\* delay of the search box's timer, in milliseconds
DebounceMs == 400

-----------------------------------------------------------------------------
(* Strings.  TLC cannot take a string apart, so the few facts the          *)
(* validators need about each input string are tabulated here.             *)

Absent == <<>>
Some(v) == <<v>>
IsPresent(o) == o # <<>>
Get(o) == o[1]

Elements(seq) == {seq[k] : k \in 1..Len(seq)}

Trim(s) ==
    CASE s = "  "         -> ""
      [] s = " Buy milk " -> "Buy milk"
      [] OTHER            -> s

StrLen(s) ==
    CASE s = ""             -> 0
      [] s = "A"            -> 1
      [] s = "  "           -> 2
      [] s = "Ann"          -> 3
      [] s = "Bob"          -> 3
      [] s = "ab1"          -> 3
      [] s = "abc123"       -> 6
      [] s = "xyz789"       -> 6
      [] s = "abcdef"       -> 6
      [] s = "Buy milk"     -> 8
      [] s = "Call Bob"     -> 8
      [] s = " Buy milk "   -> 10
      [] s = "ann@x.com"    -> 9
      [] s = "Ann@X.com"    -> 9
      [] s = "bob@x.com"    -> 9
      [] s = "not-an-email" -> 12
      [] s = "LongTitle101" -> 101
      [] s = "LongDesc501"  -> 501
      [] s = "LongBio201"   -> 201
      [] s = "Ring him"     -> 8
      [] OTHER              -> 4

HasDigit(s) == s \in {"ab1", "abc123", "xyz789", "LongTitle101"}

IsEmail(s) == s \in {"ann@x.com", "Ann@X.com", "bob@x.com"}

\* express-validator normalizeEmail(): lower-cases the address
NormalizeEmail(s) == IF s = "Ann@X.com" THEN "ann@x.com" ELSE s

-----------------------------------------------------------------------------
(* Credential store: models/User.js                                        *)

\* pre-save hook: salted one-way hash of the plaintext
HashPassword(pw) == <<"bcrypt", pw>>

\* user.comparePassword(candidate)
comparePassword(user, candidate) == user.password = HashPassword(candidate)

\* User.findOne({ email }): the matching documents (at most one)
UserFindByEmail(email) == {u \in users : u.email = email}

\* User.findById(id)
UserFindById(id) == {u \in users : u._id = id}

\* Serialisation of a user document read without '+password'
PublicUser(u) == [_id |-> u._id, name |-> u.name, email |-> u.email,
                  bio |-> u.bio, avatar |-> u.avatar, role |-> u.role,
                  password |-> Absent]

\* Serialisation of a user document read with select('+password')
WithPassword(u) == [_id |-> u._id, name |-> u.name, email |-> u.email,
                    bio |-> u.bio, avatar |-> u.avatar, role |-> u.role,
                    password |-> Some(u.password)]

\* A collection without the unique index accepts any insert
NoEmailIndex(email) == TRUE

\* The unique index on email: an insert of a second document with the same
\* email is refused by the store (duplicate key error)
UniqueEmailIndexAllows(email) == \A u \in users : u.email # email

\* The document User.create(...) persists
NewUserDoc(id, name, email, password) ==
    [_id |-> id, name |-> name, email |-> email,
     password |-> HashPassword(password), bio |-> "", avatar |-> "", role |-> "user"]

\* The document User.create(...) hands back to the route
UserCreateResult(doc) == PublicUser(doc)

-----------------------------------------------------------------------------
(* Token service: generateToken / jwt.verify                               *)

generateToken(id) == [sub |-> id, exp |-> now + JWT_EXPIRES_IN, sig |-> "ok"]

\* a verification that does not look at the exp claim
jwtVerifyWithoutExpiry(token) ==
    IF token.sig # "ok" THEN "JsonWebTokenError" ELSE "ok"

\* jwt.verify(token, secret): the signature first, then the exp claim
\* against the clock
jwtVerify(token) ==
    IF token.sig # "ok" THEN "JsonWebTokenError"
    ELSE IF now >= token.exp THEN "TokenExpiredError"
    ELSE "ok"

\* Every token the server can have signed so far: register and login sign a
\* token for user i at any clock value from i's creation on
SignedTokens ==
    {[sub |-> i, exp |-> t + JWT_EXPIRES_IN, sig |-> "ok"] :
        <<i, t>> \in {x \in (1..(nextUserId - 1)) \X (0..now) : x[2] >= regTime[x[1]]}}

\* A token not signed with the server's secret
ForgedTokens == {[sub |-> 1, exp |-> MaxTime + JWT_EXPIRES_IN + 1, sig |-> "bad"]}

\* Authorization headers a client can send
Headers ==
    {[scheme |-> "none", token |-> [sub |-> 0, exp |-> 0, sig |-> "bad"]],
     [scheme |-> "Basic", token |-> [sub |-> 0, exp |-> 0, sig |-> "bad"]]} \cup
    {[scheme |-> "Bearer", token |-> tok] : tok \in SignedTokens \cup ForgedTokens}

-----------------------------------------------------------------------------
(* Auth gateway: middleware/auth.js                                        *)

Unauth(msg) == [ok |-> FALSE, status |-> 401, error |-> msg, user |-> 0]

\* the gateway without the TokenExpiredError branch of jwt.verify
authenticateIgnoringExpiry(h) ==
    IF h.scheme # "Bearer"
    THEN Unauth("No token provided. Authorization denied.")
    ELSE IF jwtVerify(h.token) = "JsonWebTokenError"
    THEN Unauth("Invalid token.")
    ELSE IF UserFindById(h.token.sub) = {}
    THEN Unauth("User no longer exists.")
    ELSE [ok |-> TRUE, status |-> 200, error |-> "", user |-> h.token.sub]

\* authenticate(req, res, next)
authenticate(h) ==
    IF h.scheme # "Bearer"
    THEN Unauth("No token provided. Authorization denied.")
    ELSE IF jwtVerify(h.token) = "JsonWebTokenError"
    THEN Unauth("Invalid token.")
    ELSE IF jwtVerify(h.token) = "TokenExpiredError"
    THEN Unauth("Token expired. Please log in again.")
    ELSE IF UserFindById(h.token.sub) = {}
    THEN Unauth("User no longer exists.")
    ELSE [ok |-> TRUE, status |-> 200, error |-> "", user |-> h.token.sub]

-----------------------------------------------------------------------------
(* Responses.  last is the request the server touched last and the         *)
(* envelope it wrote:                                                      *)
(*   op      the route                                                     *)
(*   hdr     the Authorization header the request carried                  *)
(*   gate    "public", "passed", "resumed" or the gateway's refusal        *)
(*   ran     TRUE when the route's own handler ran                         *)
(*   actor   req.user._id (0 when no identity was attached)                *)
(*   target  the :id path parameter, when the route has one                *)
(*   status  HTTP status; 0 while the request is suspended at an await     *)
(*   success the envelope's success flag, Absent when the key is missing   *)
(*   error   the envelope's single message ("" when none)                  *)
(*   errors  the envelope's field-level messages                           *)
(*   out     the payload                                                   *)

NoToken == [sub |-> 0, exp |-> 0, sig |-> "bad"]
NoHeader == [scheme |-> "none", token |-> NoToken]
NoId == [fmt |-> "none", val |-> 0]
NoOut == [kind |-> "none"]

Respond(op, hdr, gate, ran, actor, target, status, success, error, errors, out) ==
    [op |-> op, hdr |-> hdr, gate |-> gate, ran |-> ran, actor |-> actor,
     target |-> target, status |-> status, success |-> success,
     error |-> error, errors |-> errors, out |-> out]

\* res.status(401).json({ error }) written by the gateway; next() is not called
GateRefusal(op, hdr, a, target) ==
    Respond(op, hdr, a.error, FALSE, 0, target, a.status, Absent, a.error, <<>>, NoOut)

\* res.status(400).json({ success: false, errors })
ValidationFailure(op, hdr, gate, actor, target, errs) ==
    Respond(op, hdr, gate, TRUE, actor, target, 400, Some(FALSE), "", errs, NoOut)

\* res.status(code).json({ success: false, error })
Failure(op, hdr, gate, actor, target, code, msg) ==
    Respond(op, hdr, gate, TRUE, actor, target, code, Some(FALSE), msg, <<>>, NoOut)

\* res.status(code).json({ success: true, ... })
Success(op, hdr, gate, actor, target, code, out) ==
    Respond(op, hdr, gate, TRUE, actor, target, code, Some(TRUE), "", <<>>, out)

\* the handler is waiting on a store call; nothing written yet
Suspended(op, hdr, gate, actor, target) ==
    Respond(op, hdr, gate, TRUE, actor, target, 0, Absent, "", <<>>, NoOut)

Idle == [pc |-> "idle"]

\* express-validator reports one entry per failed check, in chain order
Check(ok, field, msg) == IF ok THEN <<>> ELSE <<[field |-> field, message |-> msg]>>

-----------------------------------------------------------------------------
(* routes/auth.js                                                          *)

\* sendTokenResponse(user, statusCode, res)
sendTokenResponse(op, user, statusCode) ==
    Success(op, NoHeader, "public", 0, NoId, statusCode,
            [kind |-> "session", token |-> generateToken(user._id), user |-> user])

\* POST /register validators (the chain runs every check of a field)
RegisterErrors(body) ==
    Check(Trim(body.name) # "", "name", "Name is required")
    \o Check(StrLen(Trim(body.name)) >= 2 /\ StrLen(Trim(body.name)) <= 50,
             "name", "Name must be 2-50 characters")
    \o Check(Trim(body.email) # "", "email", "Email is required")
    \o Check(IsEmail(Trim(body.email)), "email", "Please provide a valid email")
    \o Check(body.password # "", "password", "Password is required")
    \o Check(StrLen(body.password) >= 6, "password",
             "Password must be at least 6 characters")
    \o Check(HasDigit(body.password), "password",
             "Password must contain at least one number")

\* the email POST /register looks up and stores: the chain's trim() and
\* normalizeEmail()
RegisterEmailRaw(body) == Trim(body.email)

RegisterEmail(body) == NormalizeEmail(Trim(body.email))

\* POST /register, up to the await on User.findOne and its result
RegisterCheck(p, body) ==
    /\ inflight[p] = Idle
    /\ LET email == RegisterEmail(body) IN
       IF RegisterErrors(body) # <<>>
       THEN /\ last' = ValidationFailure("register", NoHeader, "public", 0, NoId,
                                         RegisterErrors(body))
            /\ UNCHANGED inflight
       ELSE IF UserFindByEmail(email) # {}
       THEN /\ last' = Failure("register", NoHeader, "public", 0, NoId, 409,
                               "An account with this email already exists.")
            /\ UNCHANGED inflight
       ELSE /\ nextUserId + Cardinality({q \in Procs : inflight[q].pc = "register_create"})
                 <= MaxUsers
            /\ inflight' = [inflight EXCEPT ![p] =
                    [pc |-> "register_create", name |-> Trim(body.name),
                     email |-> email, password |-> body.password]]
            /\ last' = Suspended("register", NoHeader, "public", 0, NoId)
    /\ UNCHANGED <<users, nextUserId, regTime, tasks, nextTaskId, now, session, view>>

\* POST /register, from User.create to the response
RegisterCreate(p) ==
    /\ inflight[p].pc = "register_create"
    /\ inflight' = [inflight EXCEPT ![p] = Idle]
    /\ LET r == inflight[p]
           doc == NewUserDoc(nextUserId, r.name, r.email, r.password) IN
       IF UniqueEmailIndexAllows(r.email)
       THEN /\ users' = users \cup {doc}
            /\ nextUserId' = nextUserId + 1
            /\ regTime' = Append(regTime, now)
            /\ last' = sendTokenResponse("register", UserCreateResult(doc), 201)
       ELSE /\ last' = Failure("register", NoHeader, "resumed", 0, NoId, 500,
                               "Server error during registration.")
            /\ UNCHANGED <<users, nextUserId, regTime>>
    /\ UNCHANGED <<tasks, nextTaskId, now, session, view>>

\* POST /login validators
LoginErrors(body) ==
    Check(Trim(body.email) # "", "email", "Email is required")
    \o Check(IsEmail(Trim(body.email)), "email", "Please provide a valid email")
    \o Check(body.password # "", "password", "Password is required")

\* the email POST /login looks up: the chain's trim() and normalizeEmail()
LoginEmailRaw(body) == Trim(body.email)

LoginEmail(body) == NormalizeEmail(Trim(body.email))

\* the response of POST /login
LoginResponse(body) ==
    LET found == UserFindByEmail(LoginEmail(body)) IN
    IF LoginErrors(body) # <<>>
    THEN ValidationFailure("login", NoHeader, "public", 0, NoId, LoginErrors(body))
    ELSE IF found = {}
    THEN Failure("login", NoHeader, "public", 0, NoId, 401, "Invalid email or password.")
    ELSE LET user == CHOOSE u \in found : TRUE IN
         IF ~comparePassword(user, body.password)
         THEN Failure("login", NoHeader, "public", 0, NoId, 401,
                      "Invalid email or password.")
         ELSE sendTokenResponse("login",
                                [WithPassword(user) EXCEPT !.password = Absent], 200)

\* POST /login
Login(body) ==
    /\ last' = LoginResponse(body)
    /\ UNCHANGED <<users, nextUserId, regTime, tasks, nextTaskId, now, inflight, session, view>>

\* GET /me
GetMe(h) ==
    /\ LET a == authenticate(h) IN
       IF ~a.ok
       THEN last' = GateRefusal("me", h, a, NoId)
       ELSE last' = Success("me", h, "passed", a.user, NoId, 200,
                            [kind |-> "user",
                             user |-> PublicUser(CHOOSE u \in UserFindById(a.user) : TRUE)])
    /\ UNCHANGED <<users, nextUserId, regTime, tasks, nextTaskId, now, inflight, session, view>>

-----------------------------------------------------------------------------
(* routes/users.js                                                         *)

\* GET /profile
GetProfile(h) ==
    /\ LET a == authenticate(h) IN
       IF ~a.ok
       THEN last' = GateRefusal("profile", h, a, NoId)
       ELSE last' = Success("profile", h, "passed", a.user, NoId, 200,
                            [kind |-> "user",
                             user |-> PublicUser(CHOOSE u \in UserFindById(a.user) : TRUE)])
    /\ UNCHANGED <<users, nextUserId, regTime, tasks, nextTaskId, now, inflight, session, view>>

\* PUT /password validators
PasswordErrors(body) ==
    Check(body.currentPassword # "", "currentPassword", "Current password is required")
    \o Check(StrLen(body.newPassword) >= 6, "newPassword",
             "New password must be at least 6 characters")
    \o Check(HasDigit(body.newPassword), "newPassword",
             "New password must contain at least one number")

\* isMatch = await user.comparePassword(currentPassword)
IsMatchAlways(user, body) == TRUE

IsMatch(user, body) == comparePassword(user, body.currentPassword)

\* PUT /password, up to the await on user.save(): the gateway, the validators,
\* the read of the stored hash and the comparison against it
PasswordCheck(p, h, body) ==
    /\ inflight[p] = Idle
    /\ LET a == authenticate(h) IN
       IF ~a.ok
       THEN /\ last' = GateRefusal("password", h, a, NoId)
            /\ UNCHANGED inflight
       ELSE IF PasswordErrors(body) # <<>>
       THEN /\ last' = ValidationFailure("password", h, "passed", a.user, NoId,
                                         PasswordErrors(body))
            /\ UNCHANGED inflight
       ELSE LET user == CHOOSE u \in UserFindById(a.user) : TRUE IN
            IF ~IsMatch(user, body)
            THEN /\ last' = Failure("password", h, "passed", a.user, NoId, 400,
                                    "Current password is incorrect.")
                 /\ UNCHANGED inflight
            ELSE /\ inflight' = [inflight EXCEPT ![p] =
                        [pc |-> "password_save", user |-> a.user,
                         currentPassword |-> body.currentPassword,
                         newPassword |-> body.newPassword]]
                 /\ last' = Suspended("password", h, "passed", a.user, NoId)
    /\ UNCHANGED <<users, nextUserId, regTime, tasks, nextTaskId, now, session, view>>

\* PUT /password, from user.save() to the response
PasswordSave(p) ==
    /\ inflight[p].pc = "password_save"
    /\ inflight' = [inflight EXCEPT ![p] = Idle]
    /\ LET r == inflight[p] IN
       IF UserFindById(r.user) = {}
       THEN /\ last' = Failure("password", NoHeader, "resumed", r.user, NoId, 500,
                               "Failed to change password.")
            /\ UNCHANGED users
       ELSE /\ users' = {IF u._id = r.user
                         THEN [u EXCEPT !.password = HashPassword(r.newPassword)]
                         ELSE u : u \in users}
            /\ last' = Respond("password", NoHeader, "resumed", TRUE, r.user, NoId, 200,
                               Some(TRUE), "", <<>>,
                               [kind |-> "message",
                                message |-> "Password updated successfully."])
    /\ UNCHANGED <<nextUserId, regTime, tasks, nextTaskId, now, session, view>>

\* PUT /profile validators
ProfileErrors(body) ==
    Check(~IsPresent(body.name)
            \/ (StrLen(Trim(Get(body.name))) >= 2 /\ StrLen(Trim(Get(body.name))) <= 50),
          "name", "Name must be 2-50 characters")
    \o Check(~IsPresent(body.bio) \/ StrLen(Trim(Get(body.bio))) <= 200,
             "bio", "Bio cannot exceed 200 characters")

\* a handler that hands req.body to findByIdAndUpdate as it came: every key of
\* the body that is a path of the schema is written
UpdateProfileWholeBody(h, body) ==
    /\ LET a == authenticate(h) IN
       IF ~a.ok
       THEN /\ last' = GateRefusal("profile_update", h, a, NoId)
            /\ UNCHANGED users
       ELSE IF ProfileErrors(body) # <<>>
       THEN /\ last' = ValidationFailure("profile_update", h, "passed", a.user, NoId,
                                         ProfileErrors(body))
            /\ UNCHANGED users
       ELSE LET old == CHOOSE u \in UserFindById(a.user) : TRUE
                new == [old EXCEPT
                          !.name = IF IsPresent(body.name)
                                   THEN Trim(Get(body.name)) ELSE @,
                          !.bio  = IF IsPresent(body.bio)
                                   THEN Trim(Get(body.bio)) ELSE @,
                          !.avatar = IF IsPresent(body.avatar)
                                     THEN Get(body.avatar) ELSE @,
                          !.role = IF IsPresent(body.role) THEN Get(body.role) ELSE @,
                          !.email = IF IsPresent(body.email) THEN Get(body.email) ELSE @] IN
            /\ users' = (users \ {old}) \cup {new}
            /\ last' = Success("profile_update", h, "passed", a.user, NoId, 200,
                               [kind |-> "user", user |-> PublicUser(new)])
    /\ UNCHANGED <<nextUserId, regTime, tasks, nextTaskId, now, inflight, session, view>>

\* PUT /profile: const { name, bio, avatar } = req.body; only these three keys
\* reach the update document
UpdateProfile(h, body) ==
    /\ LET a == authenticate(h) IN
       IF ~a.ok
       THEN /\ last' = GateRefusal("profile_update", h, a, NoId)
            /\ UNCHANGED users
       ELSE IF ProfileErrors(body) # <<>>
       THEN /\ last' = ValidationFailure("profile_update", h, "passed", a.user, NoId,
                                         ProfileErrors(body))
            /\ UNCHANGED users
       ELSE LET old == CHOOSE u \in UserFindById(a.user) : TRUE
                new == [old EXCEPT
                          !.name = IF IsPresent(body.name)
                                   THEN Trim(Get(body.name)) ELSE @,
                          !.bio  = IF IsPresent(body.bio)
                                   THEN Trim(Get(body.bio)) ELSE @,
                          !.avatar = IF IsPresent(body.avatar)
                                     THEN Get(body.avatar) ELSE @] IN
            /\ users' = (users \ {old}) \cup {new}
            /\ last' = Success("profile_update", h, "passed", a.user, NoId, 200,
                               [kind |-> "user", user |-> PublicUser(new)])
    /\ UNCHANGED <<nextUserId, regTime, tasks, nextTaskId, now, inflight, session, view>>

-----------------------------------------------------------------------------
(* Task store: models/Task.js and the Mongoose calls of routes/tasks.js    *)

Statuses == {"todo", "in-progress", "done"}
Priorities == {"low", "medium", "high"}

\* The :id path parameter.  fmt says whether the string is a 24-hex-digit
\* ObjectId; val is the id it denotes when it is one.
ObjectIdParam(n) == [fmt |-> "objectid", val |-> n]
MalformedIdParam == [fmt |-> "other", val |-> 0]

\* Mongoose casts the _id of a query filter; a string that is no ObjectId
\* makes the query throw CastError
CastsToObjectId(id) == id.fmt = "objectid"

\* positions of the documents matching { _id: id } alone
MatchIdxAnyOwner(id, owner) ==
    {i \in 1..Len(tasks) : tasks[i]._id = id.val}

\* positions of the documents matching { _id: id, user: owner }
MatchIdx(id, owner) ==
    {i \in 1..Len(tasks) : tasks[i]._id = id.val /\ tasks[i].user = owner}

RemoveAt(seq, i) == [j \in 1..(Len(seq) - 1) |-> IF j < i THEN seq[j] ELSE seq[j + 1]]

\* { user: req.user._id, ...req.body }: a user key of the body would win
OwnerStampFromBody(body, reqUser) ==
    IF IsPresent(body.user) THEN Get(body.user) ELSE reqUser

\* { ...req.body, user: req.user._id }: the later key wins the spread
OwnerStamp(body, reqUser) == reqUser

\* defaults of the Task schema for paths the create document leaves out
TaskSchemaDefaults ==
    [description |-> "", status |-> "todo", priority |-> "medium", tags |-> <<>>]

\* the tags path of the Task schema holds a set: a tag that is already in the
\* array is not stored a second time
RECURSIVE TagSet(_)
TagSet(tags) ==
    IF tags = <<>> THEN <<>>
    ELSE LET rest == TagSet(SubSeq(tags, 1, Len(tags) - 1))
             t == tags[Len(tags)] IN
         IF \E k \in 1..Len(rest) : rest[k] = t THEN rest ELSE Append(rest, t)

\* a schema without a validator on the tags path
TaskSchemaAllowsAnyTags(body) == TRUE

\* the validator of the tags path: at most five tags.  Mongoose runs it in
\* Task.create and, with runValidators, in findOneAndUpdate; a refusal is a
\* thrown ValidationError
TaskSchemaAllows(body) ==
    ~IsPresent(body.tags) \/ Len(TagSet(Get(body.tags))) <= 5

\* Task.create({ ...req.body, user: req.user._id })
NewTaskDoc(id, reqUser, body) ==
    [_id |-> id,
     user |-> OwnerStamp(body, reqUser),
     title |-> Get(body.title),
     description |-> IF IsPresent(body.description) THEN Get(body.description)
                     ELSE TaskSchemaDefaults.description,
     status |-> IF IsPresent(body.status) THEN Get(body.status)
                ELSE TaskSchemaDefaults.status,
     priority |-> IF IsPresent(body.priority) THEN Get(body.priority)
                  ELSE TaskSchemaDefaults.priority,
     dueDate |-> body.dueDate,
     tags |-> IF IsPresent(body.tags) THEN TagSet(Get(body.tags))
              ELSE TaskSchemaDefaults.tags]

\* The owner path of the Task schema: set at creation, not writable by an
\* update document
OwnerAfterUpdate(doc, body) == doc.user

\* an update document that replaces the matched document: a key the body
\* leaves out falls back to the schema default
ApplyUpdateReplacing(doc, body) ==
    [_id |-> doc._id,
     user |-> OwnerAfterUpdate(doc, body),
     title |-> IF IsPresent(body.title) THEN Get(body.title) ELSE doc.title,
     description |-> IF IsPresent(body.description)
                     THEN Get(body.description) ELSE TaskSchemaDefaults.description,
     status |-> IF IsPresent(body.status) THEN Get(body.status)
                ELSE TaskSchemaDefaults.status,
     priority |-> IF IsPresent(body.priority) THEN Get(body.priority)
                  ELSE TaskSchemaDefaults.priority,
     dueDate |-> body.dueDate,
     tags |-> IF IsPresent(body.tags) THEN TagSet(Get(body.tags))
              ELSE TaskSchemaDefaults.tags]

\* The $set that findOneAndUpdate(filter, req.body) applies to the matched
\* document: every key the body carries, the rest untouched
ApplyUpdate(doc, body) ==
    [_id |-> doc._id,
     user |-> OwnerAfterUpdate(doc, body),
     title |-> IF IsPresent(body.title) THEN Get(body.title) ELSE doc.title,
     description |-> IF IsPresent(body.description)
                     THEN Get(body.description) ELSE doc.description,
     status |-> IF IsPresent(body.status) THEN Get(body.status) ELSE doc.status,
     priority |-> IF IsPresent(body.priority) THEN Get(body.priority) ELSE doc.priority,
     dueDate |-> IF IsPresent(body.dueDate) THEN body.dueDate ELSE doc.dueDate,
     tags |-> IF IsPresent(body.tags) THEN TagSet(Get(body.tags)) ELSE doc.tags]

IsISO8601(s) == s \in {"2026-12-01"}

\* the sanitizers of the chains rewrite req.body in place
SanitizeTaskBody(body) ==
    [body EXCEPT !.title = IF IsPresent(@) THEN Some(Trim(Get(@))) ELSE @,
                 !.description = IF IsPresent(@) THEN Some(Trim(Get(@))) ELSE @]

\* checks shared by POST / and PUT /:id
CommonTaskErrors(body) ==
    Check(~IsPresent(body.description) \/ StrLen(Trim(Get(body.description))) <= 500,
          "description", "Invalid value")
    \o Check(~IsPresent(body.status) \/ Get(body.status) \in Statuses,
             "status", "Invalid value")
    \o Check(~IsPresent(body.priority) \/ Get(body.priority) \in Priorities,
             "priority", "Invalid value")

\* POST / validators
CreateErrors(body) ==
    Check(IsPresent(body.title) /\ Trim(Get(body.title)) # "", "title", "Title is required")
    \o Check(~IsPresent(body.title) \/ StrLen(Trim(Get(body.title))) <= 100,
             "title", "Title cannot exceed 100 characters")
    \o CommonTaskErrors(body)
    \o Check(~IsPresent(body.dueDate) \/ IsISO8601(Get(body.dueDate)),
             "dueDate", "Invalid date format")

\* the chain of PUT /:id without its title check
UpdateErrorsWithoutTitle(body) ==
    CommonTaskErrors(body)
    \o Check(~IsPresent(body.dueDate) \/ IsISO8601(Get(body.dueDate)),
             "dueDate", "Invalid value")

\* PUT /:id validators
UpdateErrors(body) ==
    Check(~IsPresent(body.title)
            \/ (StrLen(Trim(Get(body.title))) >= 1 /\ StrLen(Trim(Get(body.title))) <= 100),
          "title", "Invalid value")
    \o CommonTaskErrors(body)
    \o Check(~IsPresent(body.dueDate) \/ IsISO8601(Get(body.dueDate)),
             "dueDate", "Invalid value")

-----------------------------------------------------------------------------
(* routes/tasks.js                                                         *)

\* POST /
CreateTask(h, body) ==
    /\ LET a == authenticate(h) IN
       IF ~a.ok
       THEN /\ last' = GateRefusal("create", h, a, NoId)
            /\ UNCHANGED <<tasks, nextTaskId>>
       ELSE IF CreateErrors(body) # <<>>
       THEN /\ last' = ValidationFailure("create", h, "passed", a.user, NoId,
                                         CreateErrors(body))
            /\ UNCHANGED <<tasks, nextTaskId>>
       ELSE IF ~TaskSchemaAllows(body)
       THEN /\ last' = Failure("create", h, "passed", a.user, NoId, 500,
                               "Failed to create task.")
            /\ UNCHANGED <<tasks, nextTaskId>>
       ELSE /\ nextTaskId <= MaxTaskIds
            /\ LET task == NewTaskDoc(nextTaskId, a.user, SanitizeTaskBody(body)) IN
               /\ tasks' = Append(tasks, task)
               /\ nextTaskId' = nextTaskId + 1
               /\ last' = Success("create", h, "passed", a.user, NoId, 201,
                                  [kind |-> "task", task |-> task])
    /\ UNCHANGED <<users, nextUserId, regTime, now, inflight, session, view>>

\* what a handler leaves behind: the response and the Task collection
Outcome(resp, coll) == [last |-> resp, tasks |-> coll]

\* GET /:id
GetOutcome(h, id) ==
    LET a == authenticate(h) IN
    IF ~a.ok
    THEN Outcome(GateRefusal("get", h, a, id), tasks)
    ELSE IF ~CastsToObjectId(id)
    THEN Outcome(Failure("get", h, "passed", a.user, id, 500, "Failed to fetch task."),
                 tasks)
    ELSE IF MatchIdx(id, a.user) = {}
    THEN Outcome(Failure("get", h, "passed", a.user, id, 404, "Task not found."), tasks)
    ELSE Outcome(Success("get", h, "passed", a.user, id, 200,
                         [kind |-> "task",
                          task |-> tasks[CHOOSE i \in MatchIdx(id, a.user) : TRUE]]),
                 tasks)

GetTask(h, id) ==
    /\ last' = GetOutcome(h, id).last
    /\ tasks' = GetOutcome(h, id).tasks
    /\ UNCHANGED <<users, nextUserId, regTime, nextTaskId, now, inflight, session, view>>

\* a handler that hands the body to the store before it looks at
\* validationResult
UpdateOutcomeWritingFirst(h, id, body) ==
    LET a == authenticate(h) IN
    IF ~a.ok
    THEN Outcome(GateRefusal("update", h, a, id), tasks)
    ELSE IF ~CastsToObjectId(id) \/ ~TaskSchemaAllows(body)
    THEN Outcome(Failure("update", h, "passed", a.user, id, 500, "Failed to update task."),
                 tasks)
    ELSE IF MatchIdx(id, a.user) = {}
    THEN Outcome(Failure("update", h, "passed", a.user, id, 404, "Task not found."), tasks)
    ELSE LET i == CHOOSE i \in MatchIdx(id, a.user) : TRUE
             task == ApplyUpdate(tasks[i], SanitizeTaskBody(body)) IN
         IF UpdateErrors(body) # <<>>
         THEN Outcome(ValidationFailure("update", h, "passed", a.user, id,
                                        UpdateErrors(body)),
                      [tasks EXCEPT ![i] = task])
         ELSE Outcome(Success("update", h, "passed", a.user, id, 200,
                              [kind |-> "task", task |-> task]),
                      [tasks EXCEPT ![i] = task])

\* findOneAndUpdate with { upsert: true }: a filter that matches nothing
\* inserts the document
UpdateOutcomeUpserting(h, id, body) ==
    LET a == authenticate(h) IN
    IF ~a.ok
    THEN Outcome(GateRefusal("update", h, a, id), tasks)
    ELSE IF UpdateErrors(body) # <<>>
    THEN Outcome(ValidationFailure("update", h, "passed", a.user, id, UpdateErrors(body)),
                 tasks)
    ELSE IF ~CastsToObjectId(id) \/ ~TaskSchemaAllows(body)
    THEN Outcome(Failure("update", h, "passed", a.user, id, 500, "Failed to update task."),
                 tasks)
    ELSE IF MatchIdx(id, a.user) = {}
    THEN LET task == [_id |-> id.val, user |-> a.user, title |-> "",
                      description |-> TaskSchemaDefaults.description,
                      status |-> IF IsPresent(body.status) THEN Get(body.status)
                                 ELSE TaskSchemaDefaults.status,
                      priority |-> TaskSchemaDefaults.priority,
                      dueDate |-> Absent, tags |-> TaskSchemaDefaults.tags] IN
         Outcome(Success("update", h, "passed", a.user, id, 200,
                         [kind |-> "task", task |-> task]),
                 Append(tasks, task))
    ELSE LET i == CHOOSE i \in MatchIdx(id, a.user) : TRUE
             task == ApplyUpdate(tasks[i], SanitizeTaskBody(body)) IN
         Outcome(Success("update", h, "passed", a.user, id, 200,
                         [kind |-> "task", task |-> task]),
                 [tasks EXCEPT ![i] = task])

\* PUT /:id
UpdateOutcome(h, id, body) ==
    LET a == authenticate(h) IN
    IF ~a.ok
    THEN Outcome(GateRefusal("update", h, a, id), tasks)
    ELSE IF UpdateErrors(body) # <<>>
    THEN Outcome(ValidationFailure("update", h, "passed", a.user, id, UpdateErrors(body)),
                 tasks)
    ELSE IF ~CastsToObjectId(id) \/ ~TaskSchemaAllows(body)
    THEN Outcome(Failure("update", h, "passed", a.user, id, 500, "Failed to update task."),
                 tasks)
    ELSE IF MatchIdx(id, a.user) = {}
    THEN Outcome(Failure("update", h, "passed", a.user, id, 404, "Task not found."), tasks)
    ELSE LET i == CHOOSE i \in MatchIdx(id, a.user) : TRUE
             task == ApplyUpdate(tasks[i], SanitizeTaskBody(body)) IN
         Outcome(Success("update", h, "passed", a.user, id, 200,
                         [kind |-> "task", task |-> task]),
                 [tasks EXCEPT ![i] = task])

UpdateTask(h, id, body) ==
    /\ last' = UpdateOutcome(h, id, body).last
    /\ tasks' = UpdateOutcome(h, id, body).tasks
    /\ UNCHANGED <<users, nextUserId, regTime, nextTaskId, now, inflight, session, view>>

\* if (!task) return res.status(404) after findOneAndDelete
DeleteMissLenient(h, a, id) ==
    Respond("delete", h, "passed", TRUE, a.user, id, 200, Some(TRUE), "", <<>>,
            [kind |-> "message", message |-> "Task deleted successfully."])

DeleteMiss(h, a, id) ==
    Failure("delete", h, "passed", a.user, id, 404, "Task not found.")

\* DELETE /:id
DeleteOutcome(h, id) ==
    LET a == authenticate(h) IN
    IF ~a.ok
    THEN Outcome(GateRefusal("delete", h, a, id), tasks)
    ELSE IF ~CastsToObjectId(id)
    THEN Outcome(Failure("delete", h, "passed", a.user, id, 500, "Failed to delete task."),
                 tasks)
    ELSE IF MatchIdx(id, a.user) = {}
    THEN Outcome(DeleteMiss(h, a, id), tasks)
    ELSE Outcome(Respond("delete", h, "passed", TRUE, a.user, id, 200, Some(TRUE),
                         "", <<>>,
                         [kind |-> "message", message |-> "Task deleted successfully."]),
                 RemoveAt(tasks, CHOOSE i \in MatchIdx(id, a.user) : TRUE))

DeleteTask(h, id) ==
    /\ last' = DeleteOutcome(h, id).last
    /\ tasks' = DeleteOutcome(h, id).tasks
    /\ UNCHANGED <<users, nextUserId, regTime, nextTaskId, now, inflight, session, view>>

\* PUT /:id up to the store call: authenticate has awaited User.findById and
\* the validators have run; other requests are served before findOneAndUpdate
\* is issued. A request the gateway or the validators refuse is answered here.
UpdateAdmit(p, h, id, body) ==
    /\ inflight[p] = Idle
    /\ IF ~authenticate(h).ok \/ UpdateErrors(body) # <<>>
       THEN /\ last' = UpdateOutcome(h, id, body).last
            /\ UNCHANGED inflight
       ELSE /\ inflight' = [inflight EXCEPT ![p] =
                   [pc |-> "update_store", hdr |-> h, user |-> authenticate(h).user,
                    id |-> id, body |-> body]]
            /\ last' = Suspended("update", h, "passed", authenticate(h).user, id)
    /\ UNCHANGED <<users, nextUserId, regTime, tasks, nextTaskId, now, session, view>>

\* PUT /:id, the findOneAndUpdate call and the response: one store operation
\* matches { _id, user } and writes
UpdateStore(p) ==
    /\ inflight[p].pc = "update_store"
    /\ inflight' = [inflight EXCEPT ![p] = Idle]
    /\ LET r == inflight[p] IN
       /\ last' = UpdateOutcome(r.hdr, r.id, r.body).last
       /\ tasks' = UpdateOutcome(r.hdr, r.id, r.body).tasks
    /\ UNCHANGED <<users, nextUserId, regTime, nextTaskId, now, session, view>>

\* DELETE /:id up to the store call
DeleteAdmit(p, h, id) ==
    /\ inflight[p] = Idle
    /\ IF ~authenticate(h).ok
       THEN /\ last' = DeleteOutcome(h, id).last
            /\ UNCHANGED inflight
       ELSE /\ inflight' = [inflight EXCEPT ![p] =
                   [pc |-> "delete_store", hdr |-> h, user |-> authenticate(h).user,
                    id |-> id]]
            /\ last' = Suspended("delete", h, "passed", authenticate(h).user, id)
    /\ UNCHANGED <<users, nextUserId, regTime, tasks, nextTaskId, now, session, view>>

\* DELETE /:id, the findOneAndDelete call and the response
DeleteStore(p) ==
    /\ inflight[p].pc = "delete_store"
    /\ inflight' = [inflight EXCEPT ![p] = Idle]
    /\ LET r == inflight[p] IN
       /\ last' = DeleteOutcome(r.hdr, r.id).last
       /\ tasks' = DeleteOutcome(r.hdr, r.id).tasks
    /\ UNCHANGED <<users, nextUserId, regTime, nextTaskId, now, session, view>>

\* new RegExp(search, 'i') returns for a well-formed pattern and throws
\* SyntaxError for one that is not ("(" opens a group it never closes)
RegExpCompiles(pattern) == pattern \notin {"(", "["}

\* case-insensitive $regex of the search text against a stored string
RegexTest(pattern, text) ==
    \/ pattern = "milk" /\ text \in {"Buy milk"}
    \/ pattern = "bob" /\ text \in {"Call Bob"}

SearchMatches(pattern, t) ==
    \/ RegexTest(pattern, t.title)
    \/ RegexTest(pattern, t.description)
    \/ \E k \in 1..Len(t.tags) : RegexTest(pattern, t.tags[k])

\* the same filter without the owner key
ListFilterAnyOwner(owner, q, t) ==
    /\ (IsPresent(q.status) => t.status = Get(q.status))
    /\ (IsPresent(q.priority) => t.priority = Get(q.priority))
    /\ (IsPresent(q.search) => SearchMatches(Get(q.search), t))

\* the filter object GET / builds from req.query, applied to a document
ListFilter(owner, q, t) ==
    /\ t.user = owner
    /\ (IsPresent(q.status) => t.status = Get(q.status))
    /\ (IsPresent(q.priority) => t.priority = Get(q.priority))
    /\ (IsPresent(q.search) => SearchMatches(Get(q.search), t))

\* Task.countDocuments(filter)
CountDocuments(owner, q) ==
    Cardinality({i \in 1..Len(tasks) : ListFilter(owner, q, tasks[i])})

\* position of a value in the store's ordering of the sort field (strings
\* compare in code-unit order, a missing date sorts before any date)
SortKey(t, sortBy) ==
    CASE sortBy = "createdAt" -> t._id
      [] sortBy = "title"     -> (CASE t.title = "Buy milk" -> 1
                                    [] t.title = "Call Bob" -> 2
                                    [] OTHER -> 3)
      [] sortBy = "priority"  -> (CASE t.priority = "high" -> 1
                                    [] t.priority = "low" -> 2
                                    [] OTHER -> 3)
      [] sortBy = "dueDate"   -> (IF IsPresent(t.dueDate) THEN 1 ELSE 0)
      [] OTHER                -> 0

\* the ways to arrange n documents
Arrangements(n) ==
    {f \in [1..n -> 1..n] : \A i \in 1..n : \A j \in 1..n : f[i] = f[j] => i = j}

\* .sort({ [sortBy]: sortOrder }): the orders in which the store may hand
\* back the matching documents.  The sort document names one key and no
\* second one, and MongoDB returns documents whose sort keys are equal in no
\* particular order, not necessarily the same from one query to the next.
SortedOrders(seq, sortBy, sortOrder) ==
    {s \in {[i \in 1..Len(seq) |-> seq[f[i]]] : f \in Arrangements(Len(seq))} :
        \A i \in 1..(Len(s) - 1) :
            sortOrder * SortKey(s[i], sortBy) <= sortOrder * SortKey(s[i + 1], sortBy)}

Min(a, b) == IF a < b THEN a ELSE b

CeilDiv(a, b) == (a + b - 1) \div b

QueryPage(q) == IF IsPresent(q.page) THEN Get(q.page) ELSE 1
QueryLimit(q) == IF IsPresent(q.limit) THEN Get(q.limit) ELSE 10
QuerySortBy(q) == IF IsPresent(q.sortBy) THEN Get(q.sortBy) ELSE "createdAt"
QuerySortOrder(q) == IF IsPresent(q.order) /\ Get(q.order) = "asc" THEN 1 ELSE -1

\* .skip((page - 1) * limit).limit(Number(limit))
PageOf(sorted, q) ==
    LET skip == (QueryPage(q) - 1) * QueryLimit(q)
    IN  SubSeq(sorted, skip + 1, Min(Len(sorted), skip + QueryLimit(q)))

\* Task.find(filter).sort(sortOptions).skip(...).limit(...): the results the
\* store may return
FindResults(owner, q) ==
    {PageOf(sorted, q) :
        sorted \in SortedOrders(SelectSeq(tasks, LAMBDA t : ListFilter(owner, q, t)),
                                QuerySortBy(q), QuerySortOrder(q))}

\* GET /, up to the await on Task.countDocuments and its result
ListCount(p, h, q) ==
    /\ inflight[p] = Idle
    /\ LET a == authenticate(h) IN
       IF ~a.ok
       THEN /\ last' = GateRefusal("list", h, a, NoId)
            /\ UNCHANGED inflight
       ELSE IF IsPresent(q.search) /\ ~RegExpCompiles(Get(q.search))
       THEN \* the filter is built before the try block: the exception leaves
            \* the async handler as a rejected promise that Express 4 does not
            \* observe, and nothing is ever written to this response
            /\ inflight' = [inflight EXCEPT ![p] =
                   [pc |-> "list_rejected", user |-> a.user, q |-> q]]
            /\ last' = Suspended("list", h, "passed", a.user, NoId)
       ELSE /\ inflight' = [inflight EXCEPT ![p] =
                   [pc |-> "list_find", user |-> a.user, q |-> q,
                    total |-> CountDocuments(a.user, q)]]
            /\ last' = Suspended("list", h, "passed", a.user, NoId)
    /\ UNCHANGED <<users, nextUserId, regTime, tasks, nextTaskId, now, session, view>>

\* GET /, from Task.find to the response
ListFind(p) ==
    /\ inflight[p].pc = "list_find"
    /\ inflight' = [inflight EXCEPT ![p] = Idle]
    /\ LET r == inflight[p] IN
       \E found \in FindResults(r.user, r.q) :
       last' = Success("list", NoHeader, "resumed", r.user, NoId, 200,
                       [kind |-> "list",
                        tasks |-> found,
                        pagination |-> [total |-> r.total,
                                        page |-> QueryPage(r.q),
                                        pages |-> CeilDiv(r.total, QueryLimit(r.q)),
                                        limit |-> QueryLimit(r.q)]])
    /\ UNCHANGED <<users, nextUserId, regTime, tasks, nextTaskId, now, session, view>>

\* an aggregate that groups on priority whatever field it is asked for
AggregateOnPriority(owner, field) ==
    {[_id |-> v, count |-> Cardinality({i \in 1..Len(tasks) :
                                tasks[i].user = owner /\ tasks[i].priority = v})] :
        v \in {tasks[i].priority : i \in {j \in 1..Len(tasks) : tasks[j].user = owner}}}

\* Task.aggregate([{ $match: { user } }, { $group: { _id: '$' + field, count } }]):
\* one group per value that occurs
Aggregate(owner, field) ==
    {[_id |-> v, count |-> Cardinality({i \in 1..Len(tasks) :
                                tasks[i].user = owner /\ tasks[i][field] = v})] :
        v \in {tasks[i][field] : i \in {j \in 1..Len(tasks) : tasks[j].user = owner}}}

RECURSIVE SumCounts(_)
SumCounts(groups) ==
    IF groups = {} THEN 0
    ELSE LET g == CHOOSE x \in groups : TRUE IN g.count + SumCounts(groups \ {g})

GroupCount(groups, key) ==
    IF \E g \in groups : g._id = key
    THEN (CHOOSE g \in groups : g._id = key).count
    ELSE 0

\* a summary that starts from { total: 0 }: only the statuses the aggregate
\* returned a group for get a key
SummaryOfGroupsOnly(stats) ==
    [k \in {"total"} \cup {g._id : g \in stats} |->
        IF k = "total" THEN SumCounts(stats) ELSE GroupCount(stats, k)]

\* summary = { todo: 0, 'in-progress': 0, done: 0, total: 0 } filled by the
\* forEach: summary[_id] = count; summary.total += count.  The object is a
\* function from its keys to the counts.
Summary(stats) ==
    [k \in {"todo", "in-progress", "done", "total"} \cup {g._id : g \in stats} |->
        IF k = "total" THEN SumCounts(stats) ELSE GroupCount(stats, k)]

\* priority = { low: 0, medium: 0, high: 0 } filled by the forEach
PrioritySummary(priorityStats) ==
    [k \in {"low", "medium", "high"} \cup {g._id : g \in priorityStats} |->
        GroupCount(priorityStats, k)]

\* GET /stats/summary, up to the await on the first aggregate and its result
StatsStatus(p, h) ==
    /\ inflight[p] = Idle
    /\ LET a == authenticate(h) IN
       IF ~a.ok
       THEN /\ last' = GateRefusal("stats", h, a, NoId)
            /\ UNCHANGED inflight
       ELSE /\ inflight' = [inflight EXCEPT ![p] =
                   [pc |-> "stats_priority", user |-> a.user,
                    stats |-> Aggregate(a.user, "status")]]
            /\ last' = Suspended("stats", h, "passed", a.user, NoId)
    /\ UNCHANGED <<users, nextUserId, regTime, tasks, nextTaskId, now, session, view>>

\* GET /stats/summary, from the second aggregate to the response
StatsPriority(p) ==
    /\ inflight[p].pc = "stats_priority"
    /\ inflight' = [inflight EXCEPT ![p] = Idle]
    /\ LET r == inflight[p] IN
       last' = Success("stats", NoHeader, "resumed", r.user, NoId, 200,
                       [kind |-> "stats",
                        summary |-> Summary(r.stats),
                        priority |-> PrioritySummary(Aggregate(r.user, "priority"))])
    /\ UNCHANGED <<users, nextUserId, regTime, tasks, nextTaskId, now, session, view>>

-----------------------------------------------------------------------------
(* Browser: the auth provider (AuthProvider of context/AuthContext)        *)
(*   user, loading, token   the provider's React state                     *)
(*   stored                 localStorage's token item                      *)
(*   started                the mount effect has run                       *)
(*   me, login              calls the provider is waiting for: the token   *)
(*                          the pending GET /auth/me carries, the body of  *)
(*                          the pending POST /auth/login                   *)
(*   boot, outcome          what was persisted when the page loaded, and   *)
(*                          how the startup validation ended               *)

\* the Authorization header the API client puts on a request
ApiAuthorization(tok) == [scheme |-> "Bearer", token |-> tok]

\* useState(null), useState(true), useState(localStorage.getItem('token'))
AuthProvider(persisted) ==
    [mounted |-> TRUE, user |-> Absent, loading |-> TRUE, token |-> persisted,
     stored |-> persisted, started |-> FALSE, me |-> Absent, login |-> Absent,
     boot |-> persisted, outcome |-> "none"]

\* the mount effect, up to the await on api.get('/auth/me'); with nothing
\* persisted it runs to its end
InitAuth ==
    /\ session.mounted /\ ~session.started
    /\ session' = IF session.stored = Absent
                  THEN [session EXCEPT !.started = TRUE, !.loading = FALSE]
                  ELSE [session EXCEPT !.started = TRUE, !.me = session.stored]
    /\ UNCHANGED <<users, nextUserId, regTime, tasks, nextTaskId, now, inflight, last,
                   view>>

\* an initAuth whose setLoading(false) is the last statement of the try block
MeResolvesLoadingInTry(net) ==
    /\ session.mounted /\ session.me # Absent
    /\ LET a == authenticate(ApiAuthorization(Get(session.me))) IN
       session' =
          IF net /\ a.ok
          THEN [session EXCEPT
                  !.me = Absent, !.loading = FALSE, !.outcome = "ok",
                  !.user = Some(PublicUser(CHOOSE u \in UserFindById(a.user) : TRUE))]
          ELSE [session EXCEPT
                  !.me = Absent, !.outcome = "failed",
                  !.stored = Absent, !.token = Absent]
    /\ UNCHANGED <<users, nextUserId, regTime, tasks, nextTaskId, now, inflight, last,
                   view>>

\* initAuth from the settling of api.get('/auth/me') on: the gateway's answer
\* to the token the request carried, or no answer at all (net = FALSE); any
\* failure lands in the catch block
MeResolves(net) ==
    /\ session.mounted /\ session.me # Absent
    /\ LET a == authenticate(ApiAuthorization(Get(session.me))) IN
       session' =
          IF net /\ a.ok
          THEN [session EXCEPT
                  !.me = Absent, !.loading = FALSE, !.outcome = "ok",
                  !.user = Some(PublicUser(CHOOSE u \in UserFindById(a.user) : TRUE))]
          ELSE [session EXCEPT
                  !.me = Absent, !.loading = FALSE, !.outcome = "failed",
                  !.stored = Absent, !.token = Absent]
    /\ UNCHANGED <<users, nextUserId, regTime, tasks, nextTaskId, now, inflight, last,
                   view>>

\* login(formData) up to the await on api.post('/auth/login')
LoginCall(body) ==
    /\ session.mounted /\ session.login = Absent
    /\ session' = [session EXCEPT !.login = Some(body)]
    /\ UNCHANGED <<users, nextUserId, regTime, tasks, nextTaskId, now, inflight, last,
                   view>>

\* login(formData) from the response on; a response that is not 2xx makes
\* the await throw and the provider's state stays as it is
LoginResolves ==
    /\ session.mounted /\ session.login # Absent
    /\ LET data == LoginResponse(Get(session.login)) IN
       session' =
          IF data.status = 200
          THEN [session EXCEPT
                  !.login = Absent, !.stored = Some(data.out.token),
                  !.token = Some(data.out.token), !.user = Some(data.out.user)]
          ELSE [session EXCEPT !.login = Absent]
    /\ UNCHANGED <<users, nextUserId, regTime, tasks, nextTaskId, now, inflight, last,
                   view>>

\* logout(), offered by the sidebar of a signed-in page
Logout ==
    /\ session.mounted /\ session.user # Absent
    /\ session' = [session EXCEPT !.stored = Absent, !.token = Absent, !.user = Absent]
    /\ UNCHANGED <<users, nextUserId, regTime, tasks, nextTaskId, now, inflight, last,
                   view>>

-----------------------------------------------------------------------------
(* Browser: the dashboard page (DashboardPage with the useTasks hook)      *)
(*   hdr       the Authorization header the API client sends               *)
(*   filters   the page's filter state                                     *)
(*   typed     the text in the search box                                  *)
(*   timer     searchTimeout: the value the pending timer will apply       *)
(*   elapsed   milliseconds since the timer was set (up to its delay)      *)
(*   issued    list requests sent so far; reqs: those not yet settled      *)
(*   shown     tasks and pagination of the hook, with the number of the    *)
(*             request they came from                                      *)
(*   newest    the answer to the latest-issued request answered so far     *)

\* loadTasks with the filters of the render it was created in, and fetchTasks
\* up to its await: empty search, status and priority are left out of the
\* query string
LoadTasks(v, f) ==
    [v EXCEPT
       !.issued = @ + 1,
       !.reqs = @ \cup
          {[seq |-> v.issued + 1,
            q |-> [status   |-> IF f.status # "" THEN Some(f.status) ELSE Absent,
                   priority |-> IF f.priority # "" THEN Some(f.priority) ELSE Absent,
                   search   |-> IF f.search # "" THEN Some(f.search) ELSE Absent,
                   page     |-> Some(f.page),
                   limit    |-> Some(f.limit),
                   sortBy   |-> Some(f.sortBy),
                   order    |-> Some(f.order)]]}]

\* a change handler that sets a timer without clearing the one that is
\* running: the earlier timer fires with the earlier text
handleSearchChangeKeepingTimer(val) ==
    /\ view.mounted /\ val # view.typed
    /\ view' = IF view.timer # Absent
               THEN [view EXCEPT !.typed = val]
               ELSE [view EXCEPT !.typed = val, !.timer = Some(val), !.elapsed = 0]
    /\ UNCHANGED <<users, nextUserId, regTime, tasks, nextTaskId, now, inflight, last,
                   session>>

\* handleSearchChange: clearTimeout, then setTimeout(..., 400)
handleSearchChange(val) ==
    /\ view.mounted /\ val # view.typed
    /\ view' = [view EXCEPT !.typed = val, !.timer = Some(val), !.elapsed = 0]
    /\ UNCHANGED <<users, nextUserId, regTime, tasks, nextTaskId, now, inflight, last,
                   session>>

\* time passes while a timer is pending
ClockTick ==
    /\ view.mounted /\ view.timer # Absent /\ view.elapsed < DebounceMs
    /\ view' = [view EXCEPT !.elapsed = @ + 200]
    /\ UNCHANGED <<users, nextUserId, regTime, tasks, nextTaskId, now, inflight, last,
                   session>>

\* the timer's callback, not before its delay has passed: setFilters with the
\* text and page 1; the new filters object makes the effect call loadTasks
SearchTimeout ==
    /\ view.mounted /\ view.timer # Absent /\ view.elapsed >= DebounceMs
    /\ view.issued < MaxRequests
    /\ LET f == [view.filters EXCEPT !.search = Get(view.timer), !.page = 1] IN
       view' = [LoadTasks(view, f) EXCEPT !.filters = f, !.timer = Absent]
    /\ UNCHANGED <<users, nextUserId, regTime, tasks, nextTaskId, now, inflight, last,
                   session>>

\* handleFilterChange(key, value) of the status and priority selects; a
\* select reports a change when another option is chosen
handleFilterChange(key, value) ==
    /\ view.mounted /\ view.issued < MaxRequests
    /\ value # view.filters[key]
    /\ LET f == [view.filters EXCEPT ![key] = value, !.page = 1] IN
       view' = [LoadTasks(view, f) EXCEPT !.filters = f]
    /\ UNCHANGED <<users, nextUserId, regTime, tasks, nextTaskId, now, inflight, last,
                   session>>

\* onChange of the sort select
SortChange(sortBy, order) ==
    /\ view.mounted /\ view.issued < MaxRequests
    /\ <<sortBy, order>> # <<view.filters.sortBy, view.filters.order>>
    /\ LET f == [view.filters EXCEPT !.sortBy = sortBy, !.order = order, !.page = 1] IN
       view' = [LoadTasks(view, f) EXCEPT !.filters = f]
    /\ UNCHANGED <<users, nextUserId, regTime, tasks, nextTaskId, now, inflight, last,
                   session>>

\* the pagination buttons, rendered while pagination.pages > 1: the arrows
\* are enabled by pagination.page and step from filters.page, the numbered
\* buttons are a window of at most five pages
PageClick(page) ==
    /\ view.mounted /\ view.issued < MaxRequests
    /\ LET pg == view.shown.pagination
           first == IF pg.pages - 4 < pg.page - 2
                    THEN (IF pg.pages - 4 > 1 THEN pg.pages - 4 ELSE 1)
                    ELSE (IF pg.page - 2 > 1 THEN pg.page - 2 ELSE 1)
           f == [view.filters EXCEPT !.page = page] IN
       /\ pg.pages > 1
       /\ \/ pg.page > 1 /\ page = view.filters.page - 1
          \/ pg.page < pg.pages /\ page = view.filters.page + 1
          \/ page \in first..(first + Min(5, pg.pages) - 1)
       /\ view' = [LoadTasks(view, f) EXCEPT !.filters = f]
    /\ UNCHANGED <<users, nextUserId, regTime, tasks, nextTaskId, now, inflight, last,
                   session>>

\* fetchTasks from its await on: the list route's answer for the query the
\* request carries, computed when the request is served; setTasks and
\* setPagination on an answer, a toast on an error (a skip below zero makes
\* the store call throw)
ListSettles(k) ==
    /\ view.mounted /\ k \in view.reqs
    /\ LET owner == authenticate(view.hdr).user
           total == CountDocuments(owner, k.q) IN
       IF QueryPage(k.q) < 1
       THEN view' = [view EXCEPT !.reqs = @ \ {k}]
       ELSE \E found \in FindResults(owner, k.q) :
            LET data == [seq |-> k.seq, tasks |-> found,
                         pagination |-> [total |-> total,
                                         page |-> QueryPage(k.q),
                                         pages |-> CeilDiv(total, QueryLimit(k.q)),
                                         limit |-> QueryLimit(k.q)]] IN
            view' = [view EXCEPT !.reqs = @ \ {k}, !.shown = data,
                                 !.newest = IF k.seq > @.seq THEN data ELSE @]
    /\ UNCHANGED <<users, nextUserId, regTime, tasks, nextTaskId, now, inflight, last,
                   session>>

\* handleDelete(id) for a row of the table: deleteTask, then loadTasks with
\* the filters of the render the handler was created in; a delete that is
\* refused throws and nothing is reloaded.  The click, the server's delete
\* and the reload are one step here.
handleDelete(id) ==
    /\ view.mounted /\ view.issued < MaxRequests
    /\ \E k \in 1..Len(view.shown.tasks) : view.shown.tasks[k]._id = id
    /\ LET served == DeleteOutcome(view.hdr, ObjectIdParam(id)) IN
       /\ tasks' = served.tasks
       /\ last' = served.last
       /\ view' = IF served.last.status = 200 THEN LoadTasks(view, view.filters)
                  ELSE view
    /\ UNCHANGED <<users, nextUserId, regTime, nextTaskId, now, inflight, session>>

-----------------------------------------------------------------------------
(* Environment                                                             *)

\* time passes
Tick ==
    /\ now < MaxTime
    /\ now' = now + 1
    /\ UNCHANGED <<users, nextUserId, regTime, tasks, nextTaskId, inflight, last, session, view>>

\* a user document is removed from the collection by an operator: the case
\* the gateway's "User no longer exists." branch is written for
UserVanishes(i) ==
    /\ UserFindById(i) # {}
    /\ users' = users \ UserFindById(i)
    /\ UNCHANGED <<nextUserId, regTime, tasks, nextTaskId, now, inflight, last, session, view>>

-----------------------------------------------------------------------------
(* Request inputs                                                          *)

RegisterBodies ==
    {[name |-> "Ann", email |-> e, password |-> "abc123"] :
        e \in {"ann@x.com", "Ann@X.com", "bob@x.com"}}
    \cup {[name |-> "A", email |-> "ann@x.com", password |-> "abc123"],
          [name |-> "Ann", email |-> "not-an-email", password |-> "abc123"],
          [name |-> "Ann", email |-> "bob@x.com", password |-> "abcdef"]}

LoginBodies ==
    {[email |-> e, password |-> pw] :
        e \in {"Ann@X.com", "bob@x.com"}, pw \in {"abc123", "xyz789"}}
    \cup {[email |-> "ann@x.com", password |-> ""]}

PasswordBodies ==
    {[currentPassword |-> c, newPassword |-> "xyz789"] : c \in {"abc123", "xyz789"}}
    \cup {[currentPassword |-> "abc123", newPassword |-> "ab1"]}

\* the keys a profile body may carry; the handler reads name, bio and avatar
EmptyProfileBody ==
    [name |-> Absent, bio |-> Absent, avatar |-> Absent, role |-> Absent,
     email |-> Absent, password |-> Absent]

\* partial profiles, and bodies that also name paths the route does not offer
ProfileBodies ==
    {[EmptyProfileBody EXCEPT !.name = Some("Bob")],
     [EmptyProfileBody EXCEPT !.bio = Some("Hi")],
     [EmptyProfileBody EXCEPT !.avatar = Some("a.png")],
     [EmptyProfileBody EXCEPT !.bio = Some("Hi"), !.role = Some("admin")],
     [EmptyProfileBody EXCEPT !.name = Some("Bob"), !.email = Some("eve@x.com"),
                              !.password = Some("xyz789")],
     [EmptyProfileBody EXCEPT !.name = Some("A")]}

EmptyTaskBody ==
    [title |-> Absent, description |-> Absent, status |-> Absent, priority |-> Absent,
     dueDate |-> Absent, tags |-> Absent, user |-> Absent]

CreateBodies ==
    {[EmptyTaskBody EXCEPT !.title = Some(" Buy milk ")],
     [EmptyTaskBody EXCEPT !.title = Some("Buy milk"), !.user = Some(1)],
     [EmptyTaskBody EXCEPT !.title = Some("Buy milk"), !.user = Some(2)],
     [EmptyTaskBody EXCEPT !.status = Some("done")]}

UpdateBodies ==
    {[EmptyTaskBody EXCEPT !.status = Some("done")],
     [EmptyTaskBody EXCEPT !.status = Some("done"), !.user = Some(1)],
     [EmptyTaskBody EXCEPT !.user = Some(2)],
     [EmptyTaskBody EXCEPT !.priority = Some("urgent")]}

\* ids the store has assigned or has yet to assign, and a string that is no id
IdParams == {ObjectIdParam(n) : n \in 1..MaxTaskIds} \cup {MalformedIdParam}

EmptyQuery ==
    [status |-> Absent, priority |-> Absent, search |-> Absent, page |-> Absent,
     limit |-> Absent, sortBy |-> Absent, order |-> Absent]

ListQueries ==
    {EmptyQuery,
     [EmptyQuery EXCEPT !.status = Some("todo"), !.limit = Some(1), !.order = Some("asc")]}

\* bodies that exercise every path of the Task schema; the last four of each
\* set break a rule of the validators or of the schema
SixTags == <<"t1", "t2", "t3", "t4", "t5", "t6">>

FieldCreateBodies ==
    {[EmptyTaskBody EXCEPT !.title = Some(" Buy milk ")],
     [EmptyTaskBody EXCEPT !.title = Some("Call Bob"), !.description = Some("Ring him"),
                           !.priority = Some("high"), !.dueDate = Some("2026-12-01"),
                           !.tags = Some(<<"home", "home">>)],
     [EmptyTaskBody EXCEPT !.title = Some("  ")],
     [EmptyTaskBody EXCEPT !.title = Some("LongTitle101")],
     [EmptyTaskBody EXCEPT !.title = Some("Buy milk"), !.description = Some("LongDesc501")],
     [EmptyTaskBody EXCEPT !.title = Some("Buy milk"), !.tags = Some(SixTags)]}

FieldUpdateBodies ==
    {[EmptyTaskBody EXCEPT !.status = Some("done"), !.dueDate = Some("2026-12-01")],
     [EmptyTaskBody EXCEPT !.title = Some("Call Bob")],
     [EmptyTaskBody EXCEPT !.tags = Some(<<"home", "work", "home">>)],
     [EmptyTaskBody EXCEPT !.title = Some("  ")],
     [EmptyTaskBody EXCEPT !.title = Some("LongTitle101")],
     [EmptyTaskBody EXCEPT !.description = Some("LongDesc501")],
     [EmptyTaskBody EXCEPT !.tags = Some(SixTags)]}

\* for each validated route, a body that passes and bodies that break one
\* rule each
CheckedRegisterBodies ==
    {[name |-> "Ann", email |-> "Ann@X.com", password |-> "abc123"],
     [name |-> "A", email |-> "ann@x.com", password |-> "abc123"],
     [name |-> "Ann", email |-> "not-an-email", password |-> "abc123"],
     [name |-> "Ann", email |-> "bob@x.com", password |-> "abcdef"]}

CheckedCreateBodies ==
    {[EmptyTaskBody EXCEPT !.title = Some("Buy milk")],
     [EmptyTaskBody EXCEPT !.status = Some("done")],
     [EmptyTaskBody EXCEPT !.title = Some("Buy milk"), !.dueDate = Some("tomorrow")]}

CheckedUpdateBodies ==
    {[EmptyTaskBody EXCEPT !.status = Some("done")],
     [EmptyTaskBody EXCEPT !.status = Some("done"), !.priority = Some("urgent")],
     [EmptyTaskBody EXCEPT !.title = Some("  ")]}

CheckedProfileBodies ==
    {[EmptyProfileBody EXCEPT !.name = Some("Bob")],
     [EmptyProfileBody EXCEPT !.name = Some("A")],
     [EmptyProfileBody EXCEPT !.name = Some("Bob"), !.bio = Some("LongBio201")]}

CheckedPasswordBodies ==
    {[currentPassword |-> "abc123", newPassword |-> "xyz789"],
     [currentPassword |-> "abc123", newPassword |-> "ab1"],
     [currentPassword |-> "abc123", newPassword |-> "abcdef"],
     [currentPassword |-> "", newPassword |-> "xyz789"]}

\* a task created with the defaults, and every move between statuses
StatsCreateBodies == {[EmptyTaskBody EXCEPT !.title = Some("Buy milk")]}

StatusBodies == {[EmptyTaskBody EXCEPT !.status = Some(st)] : st \in Statuses}

\* logins that issue tokens, and password changes that take effect
SessionLoginBodies ==
    {[email |-> "ann@x.com", password |-> pw] : pw \in {"abc123", "xyz789"}}

SessionPasswordBodies ==
    {[currentPassword |-> "abc123", newPassword |-> "xyz789"],
     [currentPassword |-> "xyz789", newPassword |-> "abc123"]}

\* tasks that tie on priority and title, and one that does not
ListCreateBodies ==
    {[EmptyTaskBody EXCEPT !.title = Some("Buy milk")],
     [EmptyTaskBody EXCEPT !.title = Some("Call Bob"), !.priority = Some("high")]}

\* query strings inside the documented domains
PagedQueries ==
    {[EmptyQuery EXCEPT !.status = st, !.sortBy = Some(f), !.order = Some(o),
                        !.limit = Some(n)] :
        st \in {Absent, Some("todo")},
        f \in {"createdAt", "dueDate", "priority", "title"},
        o \in {"asc", "desc"},
        n \in 1..MaxTaskIds}

\* query strings outside them
OutOfDomainQueries ==
    {[EmptyQuery EXCEPT !.status = Some("archived")],
     [EmptyQuery EXCEPT !.order = Some("sideways")],
     [EmptyQuery EXCEPT !.sortBy = Some("user")]}

\* what the clients of the list route send
SentQueries ==
    {EmptyQuery} \cup OutOfDomainQueries \cup
    {[EmptyQuery EXCEPT !.sortBy = Some("priority"), !.order = Some("asc"),
                        !.limit = Some(1), !.page = Some(k)] : k \in 1..MaxTaskIds}

-----------------------------------------------------------------------------
(* Specifications                                                          *)

\* no browser is attached: the API is driven directly
NoBrowser == [mounted |-> FALSE]

Boot == Respond("boot", NoHeader, "public", FALSE, 0, NoId, 0, Absent, "", <<>>, NoOut)

\* the server has started on an empty database
Init ==
    /\ users = {}
    /\ nextUserId = 1
    /\ regTime = <<>>
    /\ tasks = <<>>
    /\ nextTaskId = 1
    /\ now = 0
    /\ inflight = [p \in Procs |-> Idle]
    /\ last = Boot
    /\ session = NoBrowser
    /\ view = NoBrowser

\* what a signed-in client sends
ClientHeaders == {h \in Headers : authenticate(h).ok}

\* the accounts and password routes
Next ==
    \/ \E p \in Procs, body \in RegisterBodies : RegisterCheck(p, body)
    \/ \E p \in Procs : RegisterCreate(p)
    \/ \E body \in LoginBodies : Login(body)
    \/ \E h \in ClientHeaders : GetMe(h)
    \/ \E p \in Procs, h \in ClientHeaders, body \in PasswordBodies : PasswordCheck(p, h, body)
    \/ \E p \in Procs : PasswordSave(p)

Spec == Init /\ [][Next]_vars

\* Ann and Bob have registered
Registered ==
    /\ users = {NewUserDoc(1, "Ann", "ann@x.com", "abc123"),
                NewUserDoc(2, "Bob", "bob@x.com", "abc123")}
    /\ nextUserId = 3
    /\ regTime = <<0, 0>>
    /\ tasks = <<>>
    /\ nextTaskId = 1
    /\ now = 0
    /\ inflight = [p \in Procs |-> Idle]
    /\ last = Boot

InitTasks == Registered /\ session = NoBrowser /\ view = NoBrowser

\* the task routes
NextTasks ==
    \/ \E h \in ClientHeaders, body \in CreateBodies : CreateTask(h, body)
    \/ \E h \in ClientHeaders, id \in IdParams : GetTask(h, id)
    \/ \E h \in ClientHeaders, id \in IdParams, body \in UpdateBodies :
          UpdateTask(h, id, body)
    \/ \E h \in ClientHeaders, id \in IdParams : DeleteTask(h, id)
    \/ \E h \in ClientHeaders, q \in ListQueries : ListCount(1, h, q)
    \/ ListFind(1)
    \/ \E h \in ClientHeaders : StatsStatus(1, h)
    \/ StatsPriority(1)

SpecTasks == InitTasks /\ [][NextTasks]_vars

\* every protected route, under every header, while time passes and user
\* documents can disappear
GateIds == {ObjectIdParam(1)}
GateCreateBodies == {[EmptyTaskBody EXCEPT !.title = Some("Buy milk")]}
GateUpdateBodies == {[EmptyTaskBody EXCEPT !.title = Some("Buy milk")]}
GatePasswordBodies == {[currentPassword |-> "abc123", newPassword |-> "abc123"]}
GateProfileBodies == {[EmptyProfileBody EXCEPT !.name = Some("Ann")]}

NextGate ==
    \/ \E h \in Headers, body \in GateCreateBodies : CreateTask(h, body)
    \/ \E h \in Headers, id \in GateIds : GetTask(h, id)
    \/ \E h \in Headers, id \in GateIds, body \in GateUpdateBodies : UpdateTask(h, id, body)
    \/ \E h \in Headers, id \in GateIds : DeleteTask(h, id)
    \/ \E h \in Headers : ListCount(1, h, EmptyQuery)
    \/ ListFind(1)
    \/ \E h \in Headers : StatsStatus(1, h)
    \/ StatsPriority(1)
    \/ \E h \in Headers : GetMe(h)
    \/ \E h \in Headers : GetProfile(h)
    \/ \E h \in Headers, body \in GateProfileBodies : UpdateProfile(h, body)
    \/ \E h \in Headers, body \in GatePasswordBodies : PasswordCheck(1, h, body)
    \/ PasswordSave(1)
    \/ Tick
    \/ \E i \in 1..MaxUsers : UserVanishes(i)

SpecGate == InitTasks /\ [][NextGate]_vars

\* Ann creates and edits her tasks, with bodies of every shape
FieldHeaders == {h \in ClientHeaders : h.token.sub = 1}

NextFields ==
    \/ \E h \in FieldHeaders, body \in FieldCreateBodies : CreateTask(h, body)
    \/ \E h \in FieldHeaders, id \in IdParams, body \in FieldUpdateBodies :
          UpdateTask(h, id, body)

SpecFields == InitTasks /\ [][NextFields]_vars

\* the page loads with nothing, a signed token or a foreign string in
\* localStorage; meanwhile time passes and accounts are removed
InitStartup ==
    /\ Registered
    /\ \E persisted \in {Absent} \cup {Some(tok) : tok \in SignedTokens \cup ForgedTokens} :
          session = AuthProvider(persisted)
    /\ view = NoBrowser

NextStartup ==
    \/ InitAuth
    \/ \E net \in BOOLEAN : MeResolves(net)
    \/ Tick
    \/ \E i \in 1..MaxUsers : UserVanishes(i)

\* React runs the mount effect after the first render, and a call of the API
\* client settles: with the server's response or with an error
SpecStartup ==
    /\ InitStartup /\ [][NextStartup]_vars
    /\ WF_vars(InitAuth) /\ WF_vars(\E net \in BOOLEAN : MeResolves(net))

\* the same page, with the login form and the sidebar's logout in use
NextAuth ==
    \/ InitAuth
    \/ \E net \in BOOLEAN : MeResolves(net)
    \/ \E body \in SessionLoginBodies : LoginCall(body)
    \/ LoginResolves
    \/ Logout
    \/ Tick

SpecAuth == InitStartup /\ [][NextAuth]_vars

\* Ann is signed in and opens the dashboard: the hook starts empty, the
\* filters at their defaults, and the mount effect has sent the first list
\* request
InitView ==
    /\ Registered
    /\ session = NoBrowser
    /\ view =
          LoadTasks(
             [mounted |-> TRUE,
              hdr |-> ApiAuthorization(generateToken(1)),
              filters |-> [search |-> "", status |-> "", priority |-> "", page |-> 1,
                           limit |-> PageLimit, sortBy |-> "createdAt",
                           order |-> "desc"],
              typed |-> "", timer |-> Absent, elapsed |-> 0,
              issued |-> 0, reqs |-> {},
              shown |-> [seq |-> 0, tasks |-> <<>>,
                         pagination |-> [total |-> 0, page |-> 1, pages |-> 1,
                                         limit |-> PageLimit]],
              newest |-> [seq |-> 0, tasks |-> <<>>,
                          pagination |-> [total |-> 0, page |-> 1, pages |-> 1,
                                          limit |-> PageLimit]]],
             [search |-> "", status |-> "", priority |-> "", page |-> 1,
              limit |-> PageLimit, sortBy |-> "createdAt", order |-> "desc"])

\* Ann uses every control of the page while her tasks are created
NextView ==
    \/ \E h \in FieldHeaders, body \in StatsCreateBodies : CreateTask(h, body)
    \/ \E val \in {"", "milk"} : handleSearchChange(val)
    \/ ClockTick
    \/ SearchTimeout
    \/ \E value \in {"", "done"} : handleFilterChange("status", value)
    \/ \E value \in {"", "high"} : handleFilterChange("priority", value)
    \/ \E sort \in {<<"createdAt", "desc">>, <<"title", "asc">>} :
          SortChange(sort[1], sort[2])
    \/ \E page \in 0..(MaxTaskIds + 1) : PageClick(page)
    \/ \E k \in view.reqs : ListSettles(k)
    \/ \E id \in 1..MaxTaskIds : handleDelete(id)

SpecView == InitView /\ [][NextView]_vars

\* list requests with no search text, a word, and a text that is no regular
\* expression; a handler suspended on a store call is resumed by the event
\* loop once the call returns
NextListLive ==
    \/ \E h \in FieldHeaders, body \in ListCreateBodies : CreateTask(h, body)
    \/ \E p \in Procs, h \in ClientHeaders, search \in {Absent, Some("milk"), Some("(")} :
          ListCount(p, h, [EmptyQuery EXCEPT !.search = search])
    \/ \E p \in Procs : ListFind(p)

SpecListLive ==
    InitTasks /\ [][NextListLive]_vars /\ \A p \in Procs : WF_vars(ListFind(p))

\* updates and deletes of the same tasks overlap: each request is admitted,
\* then waits for its store call while others are admitted or served; the
\* tasks are Ann's, the requests come from Ann and from Bob
NextRace ==
    \/ \E h \in FieldHeaders, body \in StatsCreateBodies : CreateTask(h, body)
    \/ \E p \in Procs, h \in ClientHeaders, id \in 1..MaxTaskIds :
          UpdateAdmit(p, h, ObjectIdParam(id),
                      [EmptyTaskBody EXCEPT !.status = Some("done")])
    \/ \E p \in Procs : UpdateStore(p)
    \/ \E p \in Procs, h \in ClientHeaders, id \in 1..MaxTaskIds :
          DeleteAdmit(p, h, ObjectIdParam(id))
    \/ \E p \in Procs : DeleteStore(p)

SpecRace == InitTasks /\ [][NextRace]_vars

\* users edit and read their profiles
NextProfile ==
    \/ \E h \in ClientHeaders, body \in ProfileBodies : UpdateProfile(h, body)
    \/ \E h \in ClientHeaders : GetProfile(h)

SpecProfile == InitTasks /\ [][NextProfile]_vars

\* tasks move between statuses while the dashboard asks for the summary
NextStats ==
    \/ \E h \in ClientHeaders, body \in StatsCreateBodies : CreateTask(h, body)
    \/ \E h \in ClientHeaders, id \in IdParams, body \in StatusBodies :
          UpdateTask(h, id, body)
    \/ \E h \in ClientHeaders : StatsStatus(1, h)
    \/ StatsPriority(1)

SpecStats == InitTasks /\ [][NextStats]_vars

\* tokens are issued and presented while passwords change, time passes and
\* user documents can disappear.  Logout is not a step: the client discards
\* its token and the server is not told.
NextSession ==
    \/ \E body \in SessionLoginBodies : Login(body)
    \/ \E h \in Headers : GetMe(h)
    \/ \E h \in Headers : GetProfile(h)
    \/ \E h \in Headers, body \in SessionPasswordBodies : PasswordCheck(1, h, body)
    \/ PasswordSave(1)
    \/ Tick
    \/ \E i \in 1..MaxUsers : UserVanishes(i)

SpecSession == InitTasks /\ [][NextSession]_vars

\* tasks are created and listed page by page
NextList ==
    \/ \E h \in ClientHeaders, body \in ListCreateBodies : CreateTask(h, body)
    \/ \E h \in ClientHeaders, q \in SentQueries : ListCount(1, h, q)
    \/ ListFind(1)

SpecList == InitTasks /\ [][NextList]_vars

\* the five routes that validate a body, from an empty database
NextChecked ==
    \/ \E p \in Procs, body \in CheckedRegisterBodies : RegisterCheck(p, body)
    \/ \E p \in Procs : RegisterCreate(p)
    \/ \E h \in ClientHeaders, body \in CheckedCreateBodies : CreateTask(h, body)
    \/ \E h \in ClientHeaders, id \in IdParams, body \in CheckedUpdateBodies :
          UpdateTask(h, id, body)
    \/ \E h \in ClientHeaders, body \in CheckedProfileBodies : UpdateProfile(h, body)
    \/ \E h \in ClientHeaders, body \in CheckedPasswordBodies : PasswordCheck(1, h, body)
    \/ PasswordSave(1)

SpecChecked == Init /\ [][NextChecked]_vars

-----------------------------------------------------------------------------
(* Properties of the task routes (SpecTasks)                               *)

\* what the client receives: the envelope without the request it answers
Envelope(r) == [status |-> r.status, success |-> r.success, error |-> r.error,
                errors |-> r.errors, out |-> r.out]

NotFoundEnvelope ==
    [status |-> 404, success |-> Some(FALSE), error |-> "Task not found.",
     errors |-> <<>>, out |-> NoOut]

TaskIds(coll) == {coll[i]._id : i \in 1..Len(coll)}

\* well-formed ids that name no stored task
AbsentIds == (1..MaxTaskIds) \ TaskIds(tasks)

\* ids the store assigned to tasks that have since been deleted
DeletedIds == (1..(nextTaskId - 1)) \ TaskIds(tasks)

ValidUpdateBodies == {body \in UpdateBodies : UpdateErrors(body) = <<>>}

\* C1: for every stored task of a user A and every authenticated user B other
\* than A, B's get, delete and (validated) update of A's task id are answered
\* 404 'Task not found.', the very envelope B receives for a well-formed id
\* that names no task, and leave the Task collection as it was.
CrossUserNotFound ==
    \A h \in ClientHeaders : \A i \in 1..Len(tasks) :
        LET B == authenticate(h)
            id == ObjectIdParam(tasks[i]._id) IN
        (B.ok /\ B.user # tasks[i].user) =>
            /\ Envelope(GetOutcome(h, id).last) = NotFoundEnvelope
            /\ GetOutcome(h, id).tasks = tasks
            /\ Envelope(DeleteOutcome(h, id).last) = NotFoundEnvelope
            /\ DeleteOutcome(h, id).tasks = tasks
            /\ \A body \in ValidUpdateBodies :
                  /\ Envelope(UpdateOutcome(h, id, body).last) = NotFoundEnvelope
                  /\ UpdateOutcome(h, id, body).tasks = tasks
            /\ \A n \in AbsentIds :
                  /\ Envelope(GetOutcome(h, ObjectIdParam(n)).last)
                        = Envelope(GetOutcome(h, id).last)
                  /\ Envelope(DeleteOutcome(h, ObjectIdParam(n)).last)
                        = Envelope(DeleteOutcome(h, id).last)
                  /\ \A body \in UpdateBodies :
                        Envelope(UpdateOutcome(h, ObjectIdParam(n), body).last)
                           = Envelope(UpdateOutcome(h, id, body).last)

\* B has just tried to delete A's task and the task is still stored
CrossUserAttempted ==
    /\ last.op \in {"delete", "update"}
    /\ last.status = 404
    /\ last.actor # 0
    /\ \E i \in 1..Len(tasks) :
          tasks[i]._id = last.target.val /\ tasks[i].user # last.actor

\* what user B obtains from list (every query) and from stats/summary
OwnerView(B) ==
    [list |-> [q \in ListQueries |->
                  [tasks |-> FindResults(B, q), total |-> CountDocuments(B, q)]],
     summary |-> Summary(Aggregate(B, "status")),
     priority |-> PrioritySummary(Aggregate(B, "priority"))]

DeletedStaysDeleted ==
    /\ [](\A n \in DeletedIds : \A h \in ClientHeaders :
             authenticate(h).ok =>
                /\ Envelope(GetOutcome(h, ObjectIdParam(n)).last) = NotFoundEnvelope
                /\ Envelope(DeleteOutcome(h, ObjectIdParam(n)).last) = NotFoundEnvelope
                /\ DeleteOutcome(h, ObjectIdParam(n)).tasks = tasks
                /\ \A body \in ValidUpdateBodies :
                      /\ Envelope(UpdateOutcome(h, ObjectIdParam(n), body).last)
                            = NotFoundEnvelope
                      /\ UpdateOutcome(h, ObjectIdParam(n), body).tasks = tasks
                /\ \A q \in ListQueries :
                      \A found \in FindResults(authenticate(h).user, q) :
                         n \notin TaskIds(found))
    /\ [][\A n \in DeletedIds : n \in DeletedIds']_vars

\* a second delete of a deleted id was answered 404 while the owner has
\* created another task since
DeletedTwice ==
    /\ last.op = "delete" /\ last.status = 404
    /\ last.target.val \in DeletedIds
    /\ \E i \in 1..Len(tasks) : tasks[i].user = last.actor
                                /\ tasks[i]._id > last.target.val

\* C10: a get whose id names no task of the caller is answered NotFound,
\* whatever the id string is.
GetAbsentIsNotFound ==
    (/\ last.op = "get" /\ last.gate = "passed"
     /\ (~CastsToObjectId(last.target) \/ MatchIdx(last.target, last.actor) = {}))
    => last.status = 404

Quiescent == \A p \in Procs : inflight[p] = Idle

\* the owner's tasks that have value v in a field
CountWhere(owner, field, v) ==
    Cardinality({i \in 1..Len(tasks) : tasks[i].user = owner /\ tasks[i][field] = v})

\* a summary object has a key for every status and for total, each status
\* key holds a count, and the three counts add up to total
SummaryAddsUp(summary) ==
    /\ DOMAIN summary = Statuses \cup {"total"}
    /\ \A k \in DOMAIN summary : summary[k] \in Nat
    /\ summary["todo"] + summary["in-progress"] + summary["done"] = summary["total"]

\* C13: with no request in flight, what stats/summary computes for an owner
\* has a count for each of the three statuses and the three priorities (0
\* where the owner has no such task), the status counts add up to total, and
\* total is the total an unfiltered list of the same owner reports; and the
\* summary of every stats response adds up.
StatsMatchList ==
    /\ Quiescent =>
          \A owner \in 1..MaxUsers :
             LET summary == Summary(Aggregate(owner, "status"))
                 priority == PrioritySummary(Aggregate(owner, "priority")) IN
             /\ SummaryAddsUp(summary)
             /\ \A k \in Statuses : summary[k] = CountWhere(owner, "status", k)
             /\ summary["total"] = CountDocuments(owner, EmptyQuery)
             /\ DOMAIN priority = Priorities
             /\ \A k \in Priorities : priority[k] = CountWhere(owner, "priority", k)
    /\ (last.op = "stats" /\ last.status = 200) =>
          /\ SummaryAddsUp(last.out.summary)
          /\ DOMAIN last.out.priority = Priorities

\* a stats response for an owner of one todo and one done task: in-progress
\* is reported as 0 and total as 2, the total of the owner's unfiltered list
StatsWithZeroAnswered ==
    /\ Quiescent
    /\ last.op = "stats" /\ last.status = 200
    /\ last.out.summary["todo"] = 1 /\ last.out.summary["done"] = 1
    /\ last.out.summary["in-progress"] = 0 /\ last.out.summary["total"] = 2
    /\ last.out.priority["low"] = 0
    /\ CountDocuments(last.actor, EmptyQuery) = 2

\* C17: when an update answered 200 moves a task of its owner from status s1
\* to another status s2, what stats/summary computes for the owner has one
\* less for s1, one more for s2, the same for the third status and the same
\* total; and a stats request answers with the summary of the collection as
\* it is when the request reads it.
StatusMoveInStats ==
    [][/\ (last'.op = "update" /\ last'.status = 200) =>
             \A owner \in {last'.actor} : \A i \in 1..Len(tasks) :
                \A s1 \in {tasks[i].status} : \A s2 \in {tasks'[i].status} :
                   s1 # s2 =>
                      /\ tasks[i].user = owner
                      /\ Summary(Aggregate(owner, "status"))'[s1]
                            = Summary(Aggregate(owner, "status"))[s1] - 1
                      /\ Summary(Aggregate(owner, "status"))'[s2]
                            = Summary(Aggregate(owner, "status"))[s2] + 1
                      /\ \A s3 \in (Statuses \cup {"total"}) \ {s1, s2} :
                            Summary(Aggregate(owner, "status"))'[s3]
                               = Summary(Aggregate(owner, "status"))[s3]
       /\ \A p \in Procs :
             /\ (inflight[p] = Idle /\ inflight'[p].pc = "stats_priority") =>
                   Summary(inflight'[p].stats)
                      = Summary(Aggregate(inflight'[p].user, "status"))
             /\ (inflight[p].pc = "stats_priority" /\ inflight'[p] = Idle) =>
                   last'.out.summary = Summary(inflight[p].stats)]_vars

\* the owner's one task, created with the defaults and since updated to
\* done, is reported by the stats response as done: 1, todo: 0, total: 1
DoneCountedOnce ==
    /\ Quiescent
    /\ last.op = "stats" /\ last.status = 200
    /\ last.out.summary["done"] = 1 /\ last.out.summary["todo"] = 0
    /\ last.out.summary["total"] = 1
    /\ \A i \in 1..Len(tasks) :
          tasks[i].user = last.actor =>
             (tasks[i].status = "done" /\ tasks[i].priority = "medium")

-----------------------------------------------------------------------------
(* Properties of the list route (SpecList)                                 *)

RECURSIVE SumOfLengths(_, _)
SumOfLengths(served, n) ==
    IF n = 0 THEN 0 ELSE Len(served[n]) + SumOfLengths(served, n - 1)

\* C14: for every owner and every in-domain filter, sort field, direction
\* and page size, whatever the store returns for pages 1..ceil(total/limit)
\* of the same query on the same collection, the pages together hold total
\* tasks and every matching task is on exactly one page.
PagesPartition ==
    \A owner \in 1..MaxUsers : \A q \in PagedQueries :
        LET total == CountDocuments(owner, q)
            pages == CeilDiv(total, QueryLimit(q))
            Call(k) == FindResults(owner, [q EXCEPT !.page = Some(k)])
            matching == {i \in 1..Len(tasks) : ListFilter(owner, q, tasks[i])}
        IN  \A served \in [1..pages -> UNION {Call(k) : k \in 1..pages}] :
               (\A k \in 1..pages : served[k] \in Call(k)) =>
                  /\ SumOfLengths(served, pages) = total
                  /\ \A i \in matching :
                        Cardinality({k \in 1..pages :
                                        tasks[i] \in Elements(served[k])}) = 1

InDomain(q) ==
    /\ IsPresent(q.status) => Get(q.status) \in Statuses
    /\ IsPresent(q.priority) => Get(q.priority) \in Priorities
    /\ IsPresent(q.page) => Get(q.page) >= 1
    /\ IsPresent(q.limit) => (Get(q.limit) >= 1 /\ Get(q.limit) <= 100)
    /\ IsPresent(q.sortBy) => Get(q.sortBy) \in {"createdAt", "dueDate", "priority", "title"}
    /\ IsPresent(q.order) => Get(q.order) \in {"asc", "desc"}

\* C15: a list request whose countDocuments has run, and whose find is about
\* to, carries only in-domain query values.
ListQueriesInDomain ==
    \A p \in Procs : inflight[p].pc = "list_find" => InDomain(inflight[p].q)

-----------------------------------------------------------------------------
(* Properties of the task fields (SpecFields)                              *)

TaskFields == {"title", "description", "status", "priority", "dueDate", "tags"}

\* the value a key of the body asks for, once the chain's sanitizers ran
Supplied(body, f) ==
    CASE f \in {"title", "description"} -> Trim(Get(body[f]))
      [] f = "dueDate"                   -> body.dueDate
      [] OTHER                           -> Get(body[f])

\* a stored field holds the value asked for (tags: the same set of tags)
HoldsValue(f, stored, asked) ==
    IF f = "tags" THEN Elements(stored) = Elements(asked) ELSE stored = asked

\* C11: an update answered 200 leaves every other task as it was and, in the
\* matched task, gives each of title, description, status, priority, dueDate
\* and tags that the body carries the value the body carries, keeps each of
\* them that the body leaves out, and returns the task as now stored.
PartialUpdate ==
    [][(last'.op = "update" /\ last'.status = 200) =>
       \A h \in {last'.hdr} : \A id \in {last'.target} : \A body \in FieldUpdateBodies :
          UpdateTask(h, id, body) =>
             /\ Len(tasks') = Len(tasks)
             /\ MatchIdx(id, authenticate(h).user) # {}
             /\ \A i \in 1..Len(tasks) :
                   IF i \in MatchIdx(id, authenticate(h).user)
                   THEN /\ last'.out.task = tasks'[i]
                        /\ tasks'[i]._id = tasks[i]._id
                        /\ \A f \in TaskFields :
                              IF IsPresent(body[f])
                              THEN HoldsValue(f, tasks'[i][f], Supplied(body, f))
                              ELSE tasks'[i][f] = tasks[i][f]
                   ELSE tasks'[i] = tasks[i]]_vars

\* a task created with a description, a priority and a due date has just
\* been given new tags, and still has the description, priority and date
PatchedKeepsTheRest ==
    /\ last.op = "update" /\ last.status = 200
    /\ Elements(last.out.task.tags) = {"home", "work"}
    /\ last.out.task.description = "Ring him"
    /\ last.out.task.priority = "high"
    /\ last.out.task.dueDate = Some("2026-12-01")
    /\ \E i \in 1..Len(tasks) : tasks[i] = last.out.task

-----------------------------------------------------------------------------
(* Properties of the validated routes (SpecChecked)                        *)

\* the response is 400 with the chain's field-level messages, and the step
\* wrote nothing to either collection and left no request waiting on one
Rejected(errs) ==
    /\ last'.status = 400
    /\ last'.success = Some(FALSE)
    /\ last'.errors = errs
    /\ errs # <<>>
    /\ \A k \in 1..Len(errs) : DOMAIN errs[k] = {"field", "message"}
    /\ UNCHANGED <<users, nextUserId, tasks, nextTaskId, inflight>>

\* C12: on register, task create, task update, profile update and password
\* change, a request (past the gateway, where the route has one) whose body
\* fails the route's validators is answered 400 with a non-empty list of
\* {field, message} entries, and users and tasks are as they were.
ValidationPrecedesMutation ==
    [][/\ \A p \in Procs : \A body \in CheckedRegisterBodies :
             (RegisterErrors(body) # <<>> /\ RegisterCheck(p, body))
                => Rejected(RegisterErrors(body))
       /\ \A h \in ClientHeaders :
             /\ \A body \in CheckedCreateBodies :
                   (CreateErrors(body) # <<>> /\ CreateTask(h, body))
                      => Rejected(CreateErrors(body))
             /\ \A id \in IdParams : \A body \in CheckedUpdateBodies :
                   (UpdateErrors(body) # <<>> /\ UpdateTask(h, id, body))
                      => Rejected(UpdateErrors(body))
             /\ \A body \in CheckedProfileBodies :
                   (ProfileErrors(body) # <<>> /\ UpdateProfile(h, body))
                      => Rejected(ProfileErrors(body))
             /\ \A body \in CheckedPasswordBodies :
                   (PasswordErrors(body) # <<>> /\ PasswordCheck(1, h, body))
                      => Rejected(PasswordErrors(body))]_vars

\* an update that breaks a rule has just been refused for the id of a task
\* the caller owns, and the task is still as created
InvalidUpdateRefused ==
    /\ last.op = "update" /\ last.status = 400
    /\ \E i \in MatchIdx(last.target, last.actor) :
          tasks[i].status = "todo" /\ tasks[i].priority = "medium"

\* C19: every stored task has a title of 1 to 100 characters that is stored
\* trimmed (so never empty or whitespace only) and a description of at most
\* 500 characters, whatever creates and updates were accepted or refused.
TitleAndDescriptionBounded ==
    \A i \in 1..Len(tasks) :
        /\ StrLen(tasks[i].title) >= 1
        /\ StrLen(tasks[i].title) <= 100
        /\ Trim(tasks[i].title) = tasks[i].title
        /\ Trim(tasks[i].title) # ""
        /\ StrLen(tasks[i].description) <= 500

\* an update with a title the chain rejects has just been refused for a
\* stored task, whose title was sent with surrounding blanks and is stored
\* without them
BadTitleRefused ==
    /\ last.op = "update" /\ last.status = 400
    /\ \E k \in 1..Len(last.errors) : last.errors[k].field = "title"
    /\ \E i \in MatchIdx(last.target, last.actor) : tasks[i].title = "Buy milk"

TooManyTags(body) == IsPresent(body.tags) /\ Len(Get(body.tags)) > 5

\* C20: every stored task has at most 5 tags and no tag twice, and a create
\* or update whose body carries more than 5 tags is answered 400 with a list
\* of field messages.
TagsBoundedAndValidated ==
    /\ [](\A i \in 1..Len(tasks) :
             /\ Len(tasks[i].tags) <= 5
             /\ Cardinality(Elements(tasks[i].tags)) = Len(tasks[i].tags))
    /\ [][(last'.op \in {"create", "update"} /\ last'.gate = "passed") =>
             \A h \in {last'.hdr} :
                /\ \A body \in FieldCreateBodies :
                      (TooManyTags(body) /\ CreateTask(h, body)) =>
                         (last'.status = 400 /\ last'.errors # <<>>)
                /\ \A id \in {last'.target} : \A body \in FieldUpdateBodies :
                      (TooManyTags(body) /\ UpdateTask(h, id, body)) =>
                         (last'.status = 400 /\ last'.errors # <<>>)]_vars

-----------------------------------------------------------------------------
(* Properties of the account routes (Spec)                                 *)

RawEmails == {body.email : body \in RegisterBodies}
Passwords == {body.password : body \in LoginBodies} \ {""}

SessionFor(r, code) ==
    /\ r.status = code
    /\ r.success = Some(TRUE)
    /\ r.out.kind = "session"
    /\ r.out.token.sub = r.out.user._id

DuplicateEmailConflict ==
    [][\A p \in Procs : \A body \in RegisterBodies :
          (/\ RegisterErrors(body) = <<>>
           /\ UserFindByEmail(NormalizeEmail(Trim(body.email))) # {}
           /\ RegisterCheck(p, body))
          => /\ last'.status = 409
             /\ last'.success = Some(FALSE)
             /\ last'.error = "An account with this email already exists."
             /\ users' = users
             /\ nextUserId' = nextUserId
             /\ inflight' = inflight]_vars

\* a registration with a used email has just been refused
ConflictAnswered ==
    /\ last.op = "register" /\ last.status = 409
    /\ users # {}

\* C6: no two user documents share an email, whatever the interleaving of
\* the existence checks and the creates of concurrent registrations.
EmailUnique ==
    \A u1 \in users : \A u2 \in users : u1._id # u2._id => u1.email # u2.email

\* two registrations of one email both passed the existence check; the
\* second create was refused by the store
RaceLost ==
    /\ last.op = "register" /\ last.status = 500
    /\ Cardinality(users) = 1

\* C8: a (validated) password change whose currentPassword does not match
\* the stored hash is answered 'Current password is incorrect.', leaves the
\* user documents as they were, and every password that logged the user in
\* before still logs in.
WrongCurrentPassword ==
    [][\A p \in Procs : \A h \in ClientHeaders : \A body \in PasswordBodies :
          \A u \in UserFindById(authenticate(h).user) :
             (/\ PasswordErrors(body) = <<>>
              /\ ~comparePassword(u, body.currentPassword)
              /\ PasswordCheck(p, h, body))
             => /\ last'.status = 400
                /\ last'.success = Some(FALSE)
                /\ last'.error = "Current password is incorrect."
                /\ users' = users
                /\ inflight' = inflight
                /\ \A pw \in Passwords :
                      comparePassword(u, pw) =>
                         SessionFor(LoginResponse([email |-> u.email,
                                                   password |-> pw])', 200)]_vars

\* a change with the wrong current password has just been refused
WrongPasswordRefused ==
    /\ last.op = "password" /\ last.status = 400
    /\ last.error = "Current password is incorrect."
    /\ \E u \in UserFindById(last.actor) :
          LoginResponse([email |-> u.email, password |-> "abc123"]).status = 200

-----------------------------------------------------------------------------
(* Properties of the auth provider (SpecStartup, SpecAuth)                 *)

\* C26: the provider is loading until the mount effect has run; with nothing
\* persisted it never calls the API and ends anonymous; with a token
\* persisted, once loading is false either the validation succeeded and the
\* user is set with the token still persisted and held, or it failed and
\* user, token state and the persisted token are all gone; loading, once
\* false, stays false; and loading eventually becomes false.
StartupLifecycle ==
    /\ [](~session.started => session.loading)
    /\ [](session.boot = Absent =>
            /\ session.me = Absent /\ session.outcome = "none"
            /\ session.user = Absent)
    /\ []((~session.loading /\ session.boot # Absent) =>
            \/ /\ session.outcome = "ok"
               /\ session.user # Absent
               /\ session.token = session.boot /\ session.stored = session.boot
            \/ /\ session.outcome = "failed"
               /\ session.user = Absent
               /\ session.token = Absent /\ session.stored = Absent)
    /\ [][~session.loading => ~session.loading']_vars
    /\ <>(~session.loading)

\* a token that has expired since it was persisted was validated and refused
StaleTokenDiscarded ==
    /\ ~session.loading /\ session.outcome = "failed"
    /\ session.boot \in {Some(tok) : tok \in SignedTokens}
    /\ now >= Get(session.boot).exp
    /\ session.stored = Absent /\ session.token = Absent

\* C28: whenever the provider holds a user, a token is persisted and held in
\* token state.
UserImpliesToken ==
    session.user # Absent => (session.stored # Absent /\ session.token # Absent)

-----------------------------------------------------------------------------
(* Properties of the dashboard page (SpecView)                             *)

\* the list request issued last
LatestRequest == CHOOSE k \in view.reqs : k.seq = view.issued

\* C25: a keystroke issues no list request and leaves the filters alone, and
\* the only timer then pending is the one for the text now in the box; the
\* search filter changes only through that timer, not before 400 ms have
\* passed since the last keystroke, to the text in the box, with page 1 and
\* exactly one list request, which carries that text and page 1; a change of
\* status, priority or sort sets page 1 and issues exactly one request; and
\* with no timer pending the search filter is the text in the box.
SearchDebounced ==
    /\ [](/\ view.timer # Absent => view.timer = Some(view.typed)
          /\ view.timer = Absent => view.filters.search = view.typed)
    /\ [][/\ view'.typed # view.typed =>
               /\ view'.issued = view.issued /\ view'.filters = view.filters
               /\ view'.timer = Some(view'.typed) /\ view'.elapsed = 0
          /\ (view'.filters.search # view.filters.search
               \/ (view.timer # Absent /\ view'.timer = Absent)) =>
               /\ view.elapsed >= DebounceMs
               /\ view'.typed = view.typed
               /\ view'.filters.search = view.typed
               /\ view'.filters.page = 1
               /\ view'.issued = view.issued + 1
               /\ \A k \in view'.reqs \ view.reqs :
                     /\ k.seq = view'.issued
                     /\ k.q.search = IF view.typed = "" THEN Absent
                                     ELSE Some(view.typed)
                     /\ k.q.page = Some(1)
          /\ (\E key \in {"status", "priority", "sortBy", "order"} :
                 view'.filters[key] # view.filters[key]) =>
               /\ view'.filters.page = 1
               /\ view'.issued = view.issued + 1
               /\ \A k \in view'.reqs \ view.reqs : k.q.page = Some(1)]_vars

\* "milk" is in the box, its timer has fired, and the one request for it is
\* on its way
SearchApplied ==
    /\ view.typed = "milk" /\ view.timer = Absent
    /\ view.filters.search = "milk" /\ view.filters.page = 1
    /\ view.issued = 2
    /\ \E k \in view.reqs : k.seq = 2 /\ k.q.search = Some("milk")

\* C27: once every list request has settled, the tasks and the pagination on
\* display are those of the answer to the request issued last.
ShowsLatestRequest ==
    (view.reqs = {} /\ view.newest.seq = view.issued) =>
       /\ view.shown.tasks = view.newest.tasks
       /\ view.shown.pagination = view.newest.pagination

\* C29: once every list request has settled, in the order it was issued, and
\* no timer is pending, the page the filters ask for is at most
\* max(1, pagination.pages).
PageWithinRange ==
    (/\ view.reqs = {} /\ view.timer = Absent
     /\ view.shown.seq = view.issued) =>
       view.filters.page <= (IF view.shown.pagination.pages > 1
                             THEN view.shown.pagination.pages ELSE 1)

-----------------------------------------------------------------------------
(* Properties of the list route under fair scheduling (SpecListLive)       *)

\* C23: every list request that has passed the gateway is eventually
\* answered, whatever its search text: a request slot that holds an open
\* request eventually becomes free again.
EveryListAnswered ==
    \A p \in Procs : (inflight[p].pc # "idle") ~> (inflight[p].pc = "idle")

-----------------------------------------------------------------------------
(* Properties of overlapping updates and deletes (SpecRace)                *)

\* the store holds a task with this id owned by this user
Holds(coll, id, owner) ==
    \E i \in 1..Len(coll) : coll[i]._id = id /\ coll[i].user = owner

\* C22: whenever the store call of an update or a delete of a well-formed id
\* is served, the answer is 200 exactly when the task exists and is owned by
\* the caller at that instant, and 404 otherwise; an update answered 200
\* rewrites that one document in place, a delete answered 200 removes that
\* one document, any other answer leaves the collection as it was; and an id
\* the store has assigned and no longer holds is never held again.
MatchAndMutateAtomic ==
    [][/\ \A p \in Procs :
            (inflight[p].pc \in {"update_store", "delete_store"}
             /\ inflight'[p] = Idle) =>
               LET r == inflight[p]
                   held == Holds(tasks, r.id.val, r.user) IN
               /\ last'.status = IF held THEN 200 ELSE 404
               /\ ~held => tasks' = tasks
               /\ (held /\ r.pc = "update_store") =>
                     /\ Len(tasks') = Len(tasks)
                     /\ \A i \in 1..Len(tasks) :
                           IF tasks[i]._id = r.id.val
                           THEN /\ tasks'[i]._id = tasks[i]._id
                                /\ tasks'[i].user = tasks[i].user
                           ELSE tasks'[i] = tasks[i]
               /\ (held /\ r.pc = "delete_store") =>
                     /\ Len(tasks') = Len(tasks) - 1
                     /\ ~Holds(tasks', r.id.val, r.user)
                     /\ \A i \in 1..Len(tasks) :
                           tasks[i]._id # r.id.val =>
                              \E j \in 1..Len(tasks') : tasks'[j] = tasks[i]
       /\ \A n \in 1..MaxTaskIds :
            (n < nextTaskId /\ \A i \in 1..Len(tasks) : tasks[i]._id # n) =>
               \A i \in 1..Len(tasks') : tasks'[i]._id # n]_vars

\* two deletes of the same task by its owner were both admitted; one was
\* served first and answered 200, the other is still waiting for its store
\* call on a task that is gone
DeleteWonTheRace ==
    /\ last.op = "delete" /\ last.status = 200
    /\ \E p \in Procs :
          /\ inflight[p].pc = "delete_store"
          /\ inflight[p].id = last.target
          /\ inflight[p].user = last.actor
    /\ \A i \in 1..Len(tasks) : tasks[i]._id # last.target.val

-----------------------------------------------------------------------------
(* Properties of the summary under overlapping writes (SpecStats)          *)

\* C30: in every stats response the three priority counts add up to the
\* total of the summary.
StatsSelfConsistent ==
    (last.op = "stats" /\ last.status = 200) =>
       last.out.priority["low"] + last.out.priority["medium"]
          + last.out.priority["high"] = last.out.summary["total"]

-----------------------------------------------------------------------------
(* Properties of overlapping password changes (Spec)                       *)

\* C24: a password change that is answered 200 writes its new hash at a
\* moment when the stored hash still matches the currentPassword the request
\* supplied.
PasswordChangeAtomic ==
    [][\A p \in Procs :
         (inflight[p].pc = "password_save" /\ inflight'[p] = Idle
          /\ last'.status = 200) =>
            \A u \in UserFindById(inflight[p].user) :
               comparePassword(u, inflight[p].currentPassword)]_vars

-----------------------------------------------------------------------------
(* Properties of the profile route (SpecProfile)                           *)

-----------------------------------------------------------------------------
(* Properties of the gateway (SpecGate)                                    *)

ProtectedOps == {"create", "get", "update", "delete", "list", "stats",
                 "me", "profile", "profile_update", "password"}

\* the header is 'Bearer <token>', the token is signed and unexpired, and the
\* id it embeds names a stored user
Verifies(h) ==
    /\ h.scheme = "Bearer"
    /\ h.token.sig = "ok"
    /\ now < h.token.exp
    /\ \E u \in users : u._id = h.token.sub

\* C7: on every protected route the handler runs only for a request whose
\* header verifies, with the token's user attached; any other request is
\* answered 401 without running the handler or touching the store; and a
\* handler resumes after an await only for a request that passed the gate.
GateStateMachine ==
    [][/\ (last' # last /\ last'.op \in ProtectedOps /\ last'.gate # "resumed") =>
             /\ last'.ran =>
                   /\ Verifies(last'.hdr)
                   /\ last'.gate = "passed"
                   /\ last'.actor = last'.hdr.token.sub
             /\ ~Verifies(last'.hdr) =>
                   /\ last'.status = 401
                   /\ ~last'.ran
                   /\ last'.actor = 0
                   /\ UNCHANGED <<users, tasks, nextTaskId, inflight>>
       /\ \A p \in Procs :
             (inflight[p] = Idle /\ inflight'[p] # Idle) =>
                 /\ last'.ran /\ last'.gate = "passed"
                 /\ inflight'[p].user = last'.actor
       /\ (last' # last /\ last'.gate = "resumed") =>
             \E p \in Procs : /\ inflight[p] # Idle /\ inflight'[p] = Idle
                              /\ inflight[p].user = last'.actor]_vars

Bearer(tok) == [scheme |-> "Bearer", token |-> tok]

\* C18: in every state, whatever logins and password changes came before,
\* the gateway accepts every token the server has signed whose exp claim is
\* still ahead of the clock and whose user is stored, attaching that user;
\* it refuses with 401 every signed token whose exp claim has passed; and no
\* step other than the clock reaching exp or the user's removal turns an
\* accepted token into a refused one.
ExpirationOnlyInvalidates ==
    /\ [](\A tok \in SignedTokens :
             /\ (now < tok.exp /\ UserFindById(tok.sub) # {}) =>
                   /\ authenticate(Bearer(tok)).ok
                   /\ authenticate(Bearer(tok)).user = tok.sub
             /\ now >= tok.exp =>
                   /\ ~authenticate(Bearer(tok)).ok
                   /\ authenticate(Bearer(tok)).status = 401)
    /\ [][\A tok \in SignedTokens :
             (/\ authenticate(Bearer(tok)).ok
              /\ now' < tok.exp
              /\ UserFindById(tok.sub)' # {})
             => authenticate(Bearer(tok))'.ok]_vars

\* a password change has just been saved, the stored hash is no longer the
\* one the user registered with, and a token signed for that user is still
\* accepted
AcceptedAfterPasswordChange ==
    /\ last.op = "password" /\ last.status = 200
    /\ \E u \in UserFindById(last.actor) : ~comparePassword(u, "abc123")
    /\ \E tok \in SignedTokens :
          tok.sub = last.actor /\ authenticate(Bearer(tok)).ok

\* C16: every response written carries a success flag: true on a success,
\* false on an error, and an error has a message or a list of field messages.
SuccessFlagOnEveryResponse ==
    last.status # 0 =>
        /\ IsPresent(last.success)
        /\ last.status < 400 => last.success = Some(TRUE)
        /\ last.status >= 400 =>
              /\ last.success = Some(FALSE)
              /\ (last.error # "" \/ last.errors # <<>>)

\* a signed, unexpired token of a user whose document is gone was refused
\* on a task route while that user's task is still stored
VanishedUserRefused ==
    /\ last.status = 401
    /\ last.error = "User no longer exists."
    /\ jwtVerify(last.hdr.token) = "ok"
    /\ \E i \in 1..Len(tasks) : tasks[i].user = last.hdr.token.sub

====
